---- MODULE Spec2Model ----
(***************************************************************************)
(* Model of the IEM crossover simulator (src/unnamed/part_001, the version *)
(* the specification describes), with the functions of the two older      *)
(* copies kept in the repository (src/src/App.js, suffix _App, and         *)
(* src/unnamed/part_000, suffix _v0) where they compute something else.    *)
(*                                                                         *)
(* Numbers.  A JavaScript number is modelled as an exact value             *)
(*     (n / d) * EPSILON^s * RESIDUE^r                                     *)
(* with n, d coprime integers, d > 0, and s, r integer scales: s = r = 0   *)
(* is an ordinary value, s = 1 a value of the size of EPSILON = 1e-12,     *)
(* r = 1 a value of the size of RESIDUE = 6.1e-17, the rounding residue of *)
(* Math.PI that Math.sin and Math.cos return at the multiples of 90        *)
(* degrees (see SinDeg and CosDeg).  d = 0 encodes the IEEE non-finite     *)
(* values: Infinity (n = 1), -Infinity (n = -1) and NaN (n = 0).           *)
(* Arithmetic is exact on one scale; a sum of values of different scales   *)
(* keeps the larger one.  No other IEEE rounding is modelled, and signed   *)
(* zeros are not modelled.                                                 *)
(***************************************************************************)
EXTENDS Integers, Sequences, FiniteSets, TLC

VARIABLES
    drivers,            \* useState([]): the driver list
    crossoverElements,  \* useState([]): every driver's crossover elements
    simulationData,     \* useState(null): the result sequence of the last sweep
    earSimulator,       \* useState({enabled, ...}): the ear-simulator settings
    sourcePreset,       \* useState('apple')
    customVoltage,      \* useState(1.0)
    uploads,            \* the file reads handleFileUpload awaits (file.text())
    probe               \* the arguments and the result of one call of a pure function

vars == <<drivers, crossoverElements, simulationData, earSimulator,
          sourcePreset, customVoltage, uploads, probe>>

editor == <<drivers, crossoverElements, simulationData, earSimulator,
            sourcePreset, customVoltage, uploads>>

---------------------------------------------------------------------------
(* Numbers *)

Abs(i) == IF i < 0 THEN -i ELSE i

Sign(i) == IF i < 0 THEN -1 ELSE IF i > 0 THEN 1 ELSE 0

RECURSIVE GCD(_, _)
GCD(a, b) == IF b = 0 THEN a ELSE GCD(b, a % b)

NaN == [n |-> 0, d |-> 0, s |-> 0, r |-> 0]
Infinity == [n |-> 1, d |-> 0, s |-> 0, r |-> 0]
NegInfinity == [n |-> -1, d |-> 0, s |-> 0, r |-> 0]

IsNaN(x) == x.d = 0 /\ x.n = 0
IsFinite(x) == x.d > 0

\* (n/d) * EPSILON^s * RESIDUE^r in lowest terms (d may be negative on
\* entry, never 0)
Norm(n, d, s, r) ==
    IF n = 0 THEN [n |-> 0, d |-> 1, s |-> 0, r |-> 0]
    ELSE LET g == GCD(Abs(n), Abs(d))
         IN  [n |-> (Sign(d) * n) \div g, d |-> Abs(d) \div g, s |-> s, r |-> r]

Rat(n, d) == Norm(n, d, 0, 0)
Num(i) == Norm(i, 1, 0, 0)
Zero == Num(0)
One == Num(1)

\* const EPSILON = 1e-12
EPSILON == [n |-> 1, d |-> 1, s |-> 1, r |-> 0]

\* 6.123233995736766e-17, half of Math.sin(Math.PI): the distance of the
\* double Math.PI / 2 from pi / 2
RESIDUE == [n |-> 1, d |-> 1, s |-> 0, r |-> 1]

RSign(x) == Sign(x.n)

RNeg(x) == [x EXCEPT !.n = -x.n]

RAbs(x) == [x EXCEPT !.n = Abs(x.n)]

\* floor(log2(i)) for i >= 1
RECURSIVE FloorLog2(_)
FloorLog2(i) == IF i < 2 THEN 0 ELSE 1 + FloorLog2(i \div 2)

RECURSIVE Pow2(_)
Pow2(k) == IF k = 0 THEN 1 ELSE 2 * Pow2(k - 1)

\* the first `bits` binary digits of log2(m / 2^14), m in [2^14, 2^15), as
\* an integer: square the mantissa, a result of 2 or more gives the digit 1
RECURSIVE Log2Frac(_, _)
Log2Frac(m, bits) ==
    IF bits = 0 THEN 0
    ELSE LET sq == (m * m) \div 16384
         IN  IF sq >= 32768
             THEN Pow2(bits - 1) + Log2Frac(sq \div 2, bits - 1)
             ELSE Log2Frac(sq, bits - 1)

\* 20 * Math.log10(i) in units of 0.001 dB, for an integer i >= 1, to
\* about 0.01 dB: 6020.6 * log2(i)
MilliDbInt(i) ==
    LET e == FloorLog2(i)
        m == IF e <= 14 THEN i * Pow2(14 - e) ELSE i \div Pow2(e - 14)
    IN  ((e * 1024 + Log2Frac(m, 10)) * 60206) \div 10240

\* 20 * Math.log10(|x|) in units of 0.001 dB for a finite x # 0, to about
\* 0.02 dB (EPSILON is -240 dB, RESIDUE is -324.26 dB)
ApproxMilliDb(x) ==
    MilliDbInt(Abs(x.n)) - MilliDbInt(x.d) - 240000 * x.s - 324260 * x.r

\* x * y (IEEE: NaN absorbs, Infinity * 0 is NaN)
RMul(x, y) ==
    IF IsNaN(x) \/ IsNaN(y) THEN NaN
    ELSE IF x.d = 0 \/ y.d = 0
         THEN [n |-> RSign(x) * RSign(y), d |-> 0, s |-> 0, r |-> 0]
    ELSE IF x.n = 0 \/ y.n = 0 THEN Zero
    ELSE LET g1 == GCD(Abs(x.n), y.d)
             g2 == GCD(Abs(y.n), x.d)
         IN  Norm((x.n \div g1) * (y.n \div g2), (x.d \div g2) * (y.d \div g1),
                  x.s + y.s, x.r + y.r)

\* a / b < c / d for positive integers, by the integer parts and then the
\* reciprocals of the remainders (no product is formed)
RECURSIVE FracLt(_, _, _, _)
FracLt(a, b, c, d) ==
    IF a \div b # c \div d THEN a \div b < c \div d
    ELSE IF c % d = 0 THEN FALSE
    ELSE IF a % b = 0 THEN TRUE
    ELSE FracLt(d, c % d, b, a % b)

\* |x| < |y| for finite x, y # 0: exact on one scale, by the approximate
\* logarithms across scales (which are decades apart)
MagLt(x, y) ==
    IF x.s = y.s /\ x.r = y.r
    THEN FracLt(Abs(x.n), x.d, Abs(y.n), y.d)
    ELSE ApproxMilliDb(x) < ApproxMilliDb(y)

\* x + y (IEEE: NaN absorbs, Infinity - Infinity is NaN).  Two finite values
\* of different scales are decades apart and the sum keeps the larger one,
\* as the rounding of a double does for values sixteen decades apart.  No
\* run adds an ordinary value to one of the size of EPSILON: the only such
\* sums of the source, x + EPSILON under a logarithm, are kept symbolic in
\* the decibel values below.
RAdd(x, y) ==
    IF IsNaN(x) \/ IsNaN(y) THEN NaN
    ELSE IF x.d = 0 /\ y.d = 0 THEN (IF x.n = y.n THEN x ELSE NaN)
    ELSE IF x.d = 0 THEN x
    ELSE IF y.d = 0 THEN y
    ELSE IF x.n = 0 THEN y
    ELSE IF y.n = 0 THEN x
    ELSE IF x.s = y.s /\ x.r = y.r
         THEN LET g == GCD(x.d, y.d)
              IN  Norm(x.n * (y.d \div g) + y.n * (x.d \div g),
                       (x.d \div g) * y.d, x.s, x.r)
    ELSE IF MagLt(x, y) THEN y ELSE x

RSub(x, y) == RAdd(x, RNeg(y))

\* x / y (IEEE: x / 0 is +-Infinity, 0 / 0 and Infinity / Infinity are NaN)
RDiv(x, y) ==
    IF IsNaN(x) \/ IsNaN(y) THEN NaN
    ELSE IF y.d = 0 THEN (IF x.d = 0 THEN NaN ELSE Zero)
    ELSE IF x.d = 0 THEN (IF y.n < 0 THEN RNeg(x) ELSE x)
    ELSE IF y.n = 0 THEN [n |-> RSign(x), d |-> 0, s |-> 0, r |-> 0]
    ELSE IF x.n = 0 THEN Zero
    ELSE LET g1 == GCD(Abs(x.n), Abs(y.n))
             g2 == GCD(x.d, y.d)
         IN  Norm((x.n \div g1) * (y.d \div g2), (x.d \div g2) * (y.n \div g1),
                  x.s - y.s, x.r - y.r)

\* x < y (IEEE: every comparison with NaN is false)
RLt(x, y) ==
    IF IsNaN(x) \/ IsNaN(y) THEN FALSE
    ELSE IF x.d = 0 THEN x.n < 0 /\ y # x
    ELSE IF y.d = 0 THEN y.n > 0
    ELSE IF RSign(x) # RSign(y) THEN RSign(x) < RSign(y)
    ELSE IF x.n = 0 THEN FALSE
    ELSE IF x.n > 0 THEN MagLt(x, y) ELSE MagLt(y, x)

RLe(x, y) == RLt(x, y) \/ (~IsNaN(x) /\ x = y)

\* the integer square root of a perfect square i, by bisection of lo..hi
RECURSIVE IntRoot(_, _, _)
IntRoot(i, lo, hi) ==
    IF lo >= hi THEN lo
    ELSE LET mid == (lo + hi + 1) \div 2
         IN  IF mid * mid <= i THEN IntRoot(i, mid, hi)
             ELSE IntRoot(i, lo, mid - 1)

IsSquare(i) == LET t == IntRoot(i, 0, 46340) IN t * t = i

\* Math.sqrt(x), where the result is a number of the model: x a finite
\* square on an even scale, or Infinity, or NaN (also for x < 0)
HasRoot(x) ==
    \/ x.d = 0
    \/ x.n < 0
    \/ IsSquare(x.n) /\ IsSquare(x.d) /\ x.s % 2 = 0 /\ x.r % 2 = 0

RSqrt(x) ==
    IF IsNaN(x) \/ x.n < 0 THEN NaN
    ELSE IF x.d = 0 THEN Infinity
    ELSE Norm(IntRoot(x.n, 0, 46340), IntRoot(x.d, 0, 46340),
              x.s \div 2, x.r \div 2)

---------------------------------------------------------------------------
(* Complex number operations *)

Cx(re, im) == [real |-> re, imag |-> im]

complexAdd(a, b) ==
    [real |-> RAdd(a.real, b.real), imag |-> RAdd(a.imag, b.imag)]

complexMultiply(a, b) ==
    [real |-> RSub(RMul(a.real, b.real), RMul(a.imag, b.imag)),
     imag |-> RAdd(RMul(a.real, b.imag), RMul(a.imag, b.real))]

\* a mutation of the guard: only an exactly zero denominator is caught
complexDivide_zeroOnly(a, b) ==
    LET denom == RAdd(RMul(b.real, b.real), RMul(b.imag, b.imag))
    IN  IF denom = Zero THEN Cx(Zero, Zero)
        ELSE [real |-> RDiv(RAdd(RMul(a.real, b.real), RMul(a.imag, b.imag)), denom),
              imag |-> RDiv(RSub(RMul(a.imag, b.real), RMul(a.real, b.imag)), denom)]

complexDivide(a, b) ==
    LET denom == RAdd(RMul(b.real, b.real), RMul(b.imag, b.imag))
    IN  IF RLt(RAbs(denom), EPSILON) THEN Cx(Zero, Zero)
        ELSE [real |-> RDiv(RAdd(RMul(a.real, b.real), RMul(a.imag, b.imag)), denom),
              imag |-> RDiv(RSub(RMul(a.imag, b.real), RMul(a.real, b.imag)), denom)]

\* src/src/App.js: the guard is "denom === 0"
complexDivide_App(a, b) ==
    LET denom == RAdd(RMul(b.real, b.real), RMul(b.imag, b.imag))
    IN  IF denom = Zero THEN Cx(Zero, Zero)
        ELSE [real |-> RDiv(RAdd(RMul(a.real, b.real), RMul(a.imag, b.imag)), denom),
              imag |-> RDiv(RSub(RMul(a.imag, b.real), RMul(a.real, b.imag)), denom)]

parallelImpedance(z1, z2) ==
    complexDivide(complexMultiply(z1, z2), complexAdd(z1, z2))

IsFiniteCx(z) == IsFinite(z.real) /\ IsFinite(z.imag)

---------------------------------------------------------------------------
(* Magnitudes, angles and decibel values *)

\* Math.sqrt(x) as a value: the non-negative number whose square is sq (a
\* square root is irrational in general, so the square is what is kept)
Surd(x) == [sq |-> x]

complexMagnitude(z) ==
    Surd(RAdd(RMul(z.real, z.real), RMul(z.imag, z.imag)))

\* An angle in degrees: deg + atan(tan), with 0 <= atan(tan) < 90 degrees.
\* The values the source reads from files or gets from atan2 on an axis
\* have tan = 0.
Angle(deg, tan) == [deg |-> deg, tan |-> tan]

Degrees(x) == Angle(x, Zero)

\* Math.atan2(z.imag, z.real) * 180 / Math.PI
complexPhase(z) ==
    LET re == z.real
        im == z.imag
    IN  IF IsNaN(re) \/ IsNaN(im) THEN Degrees(NaN)
        ELSE IF im.d = 0 /\ re.d = 0
             THEN Angle(IF re.n > 0 THEN (IF im.n > 0 THEN Zero ELSE Num(-90))
                        ELSE (IF im.n > 0 THEN Num(90) ELSE Num(-180)), One)
        ELSE IF im.d = 0 THEN Degrees(IF im.n > 0 THEN Num(90) ELSE Num(-90))
        ELSE IF re.d = 0 THEN Degrees(IF re.n > 0 \/ im.n = 0 THEN Zero
                                      ELSE IF im.n > 0 THEN Num(180) ELSE Num(-180))
        ELSE IF im.n = 0 THEN Degrees(IF re.n >= 0 THEN Zero ELSE Num(180))
        ELSE IF re.n = 0 THEN Degrees(IF im.n > 0 THEN Num(90) ELSE Num(-90))
        ELSE IF re.n > 0 /\ im.n > 0 THEN Angle(Zero, RDiv(im, re))
        ELSE IF re.n < 0 /\ im.n > 0 THEN Angle(Num(90), RDiv(RNeg(re), im))
        ELSE IF re.n < 0 /\ im.n < 0 THEN Angle(Num(-180), RDiv(im, re))
        ELSE Angle(Num(-90), RDiv(re, RNeg(im)))

\* a + b on angles; deg takes the quarter turn when the two remainders
\* reach 90 degrees together
AngleAdd(a, b) ==
    LET deg == RAdd(a.deg, b.deg)
        den == RSub(One, RMul(a.tan, b.tan))
        num == RAdd(a.tan, b.tan)
    IN  IF ~IsFinite(deg) THEN Degrees(deg)
        ELSE IF den = Zero THEN Degrees(RAdd(deg, Num(90)))
        ELSE IF RLt(den, Zero) THEN Angle(RAdd(deg, Num(90)), RDiv(RNeg(den), num))
        ELSE Angle(deg, RDiv(num, den))

\* the number of quarter turns of a whole multiple of 90 degrees
IsQuarter(deg) == IsFinite(deg) /\ deg.d = 1 /\ deg.s = 0 /\ deg.r = 0 /\ deg.n % 90 = 0

Quarter(deg) == deg.n \div 90

\* the exact cosine and sine of q quarter turns (q odd: 0; q even: 0)
QuarterCos(q) == IF q % 2 = 1 THEN 0 ELSE IF (q \div 2) % 2 = 0 THEN 1 ELSE -1

QuarterSin(q) == IF q % 2 = 0 THEN 0 ELSE IF ((q - 1) \div 2) % 2 = 0 THEN 1 ELSE -1

\* Math.cos((deg * Math.PI) / 180) for a whole multiple of 90 degrees.  The
\* double Math.PI is pi - 2 * RESIDUE, so the argument is q * RESIDUE short
\* of q quarter turns, and where the exact cosine is 0 the result is the
\* double nearest to q * RESIDUE * sin.  (Math.cos(Math.PI / 2) is
\* 6.123233995736766e-17, Math.cos(3 * Math.PI / 2) is
\* -1.8369701987210297e-16.)  Math.cos(NaN) and Math.cos(Infinity) are NaN.
CosDeg(deg) ==
    IF ~IsFinite(deg) THEN NaN
    ELSE CASE IsQuarter(deg) ->
              LET q == Quarter(deg)
              IN  IF q % 2 = 0 THEN Num(QuarterCos(q))
                  ELSE RMul(Num(q * QuarterSin(q)), RESIDUE)

\* Math.sin((deg * Math.PI) / 180) for a whole multiple of 90 degrees
\* (Math.sin(Math.PI) is 1.2246467991473532e-16 = 2 * RESIDUE,
\* Math.sin(2 * Math.PI) is -2.4492935982947064e-16)
SinDeg(deg) ==
    IF ~IsFinite(deg) THEN NaN
    ELSE CASE IsQuarter(deg) ->
              LET q == Quarter(deg)
              IN  IF q % 2 = 1 THEN Num(QuarterSin(q))
                  ELSE RMul(Num(-q * QuarterCos(q)), RESIDUE)

\* z rotated by q exact quarter turns
RotateQuarter(z, q) ==
    CASE q % 4 = 0 -> z
      [] q % 4 = 1 -> Cx(RNeg(z.imag), z.real)
      [] q % 4 = 2 -> Cx(RNeg(z.real), RNeg(z.imag))
      [] q % 4 = 3 -> Cx(z.imag, RNeg(z.real))

\* { real: mag * Math.cos(rad), imag: mag * Math.sin(rad) } for a magnitude
\* mag = Math.sqrt(magnitude.sq) and rad = angle * Math.PI / 180.  On an
\* axis the cosine and sine are those of CosDeg and SinDeg; off the axes
\* cos = 1 / sqrt(1 + tan^2), with the rounding of Math.cos left out.
PolarToComplex(magnitude, angle) ==
    IF angle.tan = Zero \/ ~IsFinite(angle.deg)
    THEN CASE HasRoot(magnitude.sq) ->
              LET mag == RSqrt(magnitude.sq)
              IN  Cx(RMul(mag, CosDeg(angle.deg)), RMul(mag, SinDeg(angle.deg)))
    ELSE LET baseSq == RDiv(magnitude.sq, RAdd(One, RMul(angle.tan, angle.tan)))
         IN  CASE HasRoot(baseSq) /\ IsQuarter(angle.deg) ->
                  LET base == RSqrt(baseSq)
                  IN  RotateQuarter(Cx(base, RMul(base, angle.tan)),
                                    Quarter(angle.deg))

---------------------------------------------------------------------------
(* Decibel values *)

\* A decibel value is num + the sum of its logarithm terms, each term
\* 20 * Math.log10(Math.sqrt(sq) + EPSILON) when guard holds and
\* 20 * Math.log10(Math.sqrt(sq)) when it does not.  A logarithm is
\* irrational in general, so the term is kept as written.
Db(num, logs) == [num |-> num, logs |-> logs]

DbNum(x) == Db(x, <<>>)

\* 20 * Math.log10(x + EPSILON) (guard) or 20 * Math.log10(x) for the
\* magnitude x = Math.sqrt(magnitude.sq); Math.log10(1e-12) is -12,
\* Math.log10(0) is -Infinity, Math.log10(1) is 0
Log20(magnitude, guard) ==
    LET sq == magnitude.sq
    IN  IF IsNaN(sq) \/ sq.n < 0 THEN DbNum(NaN)
        ELSE IF sq.d = 0 THEN DbNum(Infinity)
        ELSE IF sq = Zero THEN DbNum(IF guard THEN Num(-240) ELSE NegInfinity)
        ELSE IF sq = One /\ ~guard THEN DbNum(Zero)
        ELSE Db(Zero, <<[sq |-> sq, guard |-> guard]>>)

\* the same for a number x: the logarithm of a negative number is NaN
Log20Num(x, guard) ==
    IF RLt(x, Zero) THEN DbNum(NaN) ELSE Log20(Surd(RMul(x, x)), guard)

DbAdd(a, b) == Db(RAdd(a.num, b.num), a.logs \o b.logs)

RECURSIVE SumMilliDb(_)
SumMilliDb(logs) ==
    IF logs = <<>> THEN 0
    ELSE LET q == Head(logs).sq
             half == ApproxMilliDb(q) \div 2
         IN  (IF Head(logs).guard /\ half < -240000 THEN -240000 ELSE half)
             + SumMilliDb(Tail(logs))

\* a finite decibel value in units of 0.001 dB, to about 0.05 dB
MilliDb(x) == (x.num.n * 1000) \div x.num.d + SumMilliDb(x.logs)

\* the decibel value is num up to terms 20 * log10(1 + EPSILON), each
\* 8.7e-12 dB: the guards of the logarithms of a magnitude of exactly 1
RECURSIVE OnlyUnitGuards(_)
OnlyUnitGuards(logs) ==
    logs = <<>> \/ (Head(logs) = [sq |-> One, guard |-> TRUE]
                    /\ OnlyUnitGuards(Tail(logs)))

---------------------------------------------------------------------------
(* Frequency series and their interpolation *)

\* const name = value; body -- written Let(value, LAMBDA name : body)
Let(value, Body(_)) == Body(value)

\* null, and an array of points: a series is Null or Series(points)
Null == [null |-> TRUE]

Series(points) == [points |-> points]

\* JavaScript's falsy numbers: 0 and NaN
Falsy(x) == x = Zero \/ IsNaN(x)

\* the getValue callbacks of the call sites: (p) => p.spl,
\* (p) => p.impedance || 8, (p) => p.phase || 0
getValue(accessor, p) ==
    CASE accessor = "spl" -> p.spl
      [] accessor = "impedance" -> IF Falsy(p.impedance) THEN Num(8) ELSE p.impedance
      [] accessor = "phase" -> IF Falsy(p.phase) THEN Zero ELSE p.phase

\* getValue === ((p) => p.spl) and getValue === ((p) => p.impedance): the
\* right-hand side is a function object created by the comparison itself,
\* and === on objects is identity
SameFunction(accessor, literal) == FALSE

\* x = 5 * 2^k Hz for a k in 0..13: the frequencies whose logarithms are
\* whole octaves apart (20 Hz is the start of the sweep)
OnLattice(x) ==
    /\ IsFinite(x) /\ x.d = 1 /\ x.s = 0 /\ x.r = 0 /\ x.n >= 5 /\ x.n % 5 = 0
    /\ x.n = 5 * Pow2(FloorLog2(x.n \div 5))

\* Math.log10(x) for a frequency, counted in octaves above 20 Hz:
\* (log10(x) - log10(20)) / log10(2).  The source only uses differences and
\* quotients of differences of these logarithms.
Log10(x) ==
    IF IsNaN(x) \/ x.n < 0 THEN NaN
    ELSE IF x = Zero THEN NegInfinity
    ELSE IF x.d = 0 THEN Infinity
    ELSE CASE OnLattice(x) -> Num(FloorLog2(x.n \div 5) - 2)

\* Math.pow(10, logLower + (logUpper - logLower) * t) for positive values:
\* lowerVal^(1-t) * upperVal^t, a number of the model at t = 1/2 (the
\* geometric mean) when the product is a square
LogInterpolate(lowerVal, upperVal, t) ==
    CASE lowerVal = upperVal -> lowerVal
      [] lowerVal # upperVal /\ t = Zero -> lowerVal
      [] lowerVal # upperVal /\ t = One -> upperVal
      [] lowerVal # upperVal /\ t = Rat(1, 2) /\ HasRoot(RMul(lowerVal, upperVal)) ->
             RSqrt(RMul(lowerVal, upperVal))

\* the loop of interpolateFrequencyData from index i on (indexes from 1; 0
\* is the -1 of the source): <<lowerIdx, upperIdx>>
RECURSIVE FindBracket(_, _, _, _)
FindBracket(data, targetFreq, i, lowerIdx) ==
    IF i > Len(data) THEN <<lowerIdx, 0>>
    ELSE LET lo == IF RLe(data[i].freq, targetFreq) THEN i ELSE lowerIdx
         IN  IF RLe(targetFreq, data[i].freq) THEN <<lo, i>>
             ELSE FindBracket(data, targetFreq, i + 1, lo)

\* a mutation: the exact-match and boundary returns are skipped and the
\* value is always the default of the impedance accessor
interpolate_default(data, targetFreq, accessor) == Num(8)

interpolateFrequencyData(data, targetFreq, accessor) ==
    IF data = Null \/ data.points = <<>> THEN Null
    ELSE
    Let(FindBracket(data.points, targetFreq, 1, 0), LAMBDA idx :
    Let(idx[1], LAMBDA lowerIdx :
    Let(idx[2], LAMBDA upperIdx :
        IF lowerIdx = 0 /\ upperIdx # 0 THEN getValue(accessor, data.points[upperIdx])
        ELSE IF lowerIdx # 0 /\ upperIdx = 0 THEN getValue(accessor, data.points[lowerIdx])
        ELSE IF lowerIdx = upperIdx THEN getValue(accessor, data.points[lowerIdx])
        ELSE
        Let(data.points[lowerIdx], LAMBDA lower :
        Let(data.points[upperIdx], LAMBDA upper :
        Let(Log10(lower.freq), LAMBDA logLowerFreq :
        Let(RSub(Log10(upper.freq), logLowerFreq), LAMBDA freqRange :
        Let(RDiv(RSub(Log10(targetFreq), logLowerFreq), freqRange), LAMBDA t :
        Let(getValue(accessor, lower), LAMBDA lowerVal :
        Let(getValue(accessor, upper), LAMBDA upperVal :
        Let(RAdd(lowerVal, RMul(RSub(upperVal, lowerVal), t)), LAMBDA linear :
            IF RLt(RSub(upper.freq, lower.freq), EPSILON) THEN lowerVal
            ELSE IF RLt(freqRange, EPSILON) THEN lowerVal
            ELSE IF SameFunction(accessor, "spl")
                    \/ SameFunction(accessor, "impedance")
                 THEN IF RLe(lowerVal, EPSILON) \/ RLe(upperVal, EPSILON)
                      THEN linear
                      ELSE LogInterpolate(lowerVal, upperVal, t)
            ELSE linear)))))))))))

\* src/src/App.js: the -6 dB per octave roll-off above the last sample for
\* values between -200 and 200, the 1e-6 guard, and t linear in frequency
interpolateFrequencyData_App(data, targetFreq, accessor) ==
    IF data = Null \/ data.points = <<>> THEN Null
    ELSE
    Let(FindBracket(data.points, targetFreq, 1, 0), LAMBDA idx :
    Let(idx[1], LAMBDA lowerIdx :
    Let(idx[2], LAMBDA upperIdx :
        IF lowerIdx = 0 /\ upperIdx # 0 THEN getValue(accessor, data.points[upperIdx])
        ELSE IF lowerIdx # 0 /\ upperIdx = 0
             THEN Let(data.points[Len(data.points)], LAMBDA lastPoint :
                  Let(RSub(Log10(targetFreq), Log10(lastPoint.freq)), LAMBDA octavesAbove :
                  Let(RMul(Num(-6), octavesAbove), LAMBDA rolloffDb :
                  Let(getValue(accessor, lastPoint), LAMBDA baseValue :
                      IF RLt(baseValue, Num(200)) /\ RLt(Num(-200), baseValue)
                      THEN RAdd(baseValue, rolloffDb)
                      ELSE baseValue))))
        ELSE IF lowerIdx = upperIdx THEN getValue(accessor, data.points[lowerIdx])
        ELSE
        Let(data.points[lowerIdx], LAMBDA lower :
        Let(data.points[upperIdx], LAMBDA upper :
        Let(RDiv(RSub(targetFreq, lower.freq), RSub(upper.freq, lower.freq)), LAMBDA t :
        Let(getValue(accessor, lower), LAMBDA lowerVal :
        Let(getValue(accessor, upper), LAMBDA upperVal :
            IF RLt(RSub(upper.freq, lower.freq), Rat(1, 1000000))
            THEN lowerVal
            ELSE IF SameFunction(accessor, "spl")
                    \/ SameFunction(accessor, "impedance")
                 THEN LogInterpolate(lowerVal, upperVal, t)
            ELSE RAdd(lowerVal, RMul(RSub(upperVal, lowerVal), t))))))))))

\* A line of an uploaded file: skip holds for a line that is blank after
\* trimming or starts with '*' or '#', and parts holds parseFloat of each
\* whitespace-separated field of the trimmed line (NaN for a field that
\* does not start with a number).
Line(skip, parts) == [skip |-> skip, parts |-> parts]

\* the points one line contributes: none or one
ParseLine(line, type) ==
    IF line.skip \/ Len(line.parts) < 2 THEN <<>>
    ELSE
    Let(line.parts[1], LAMBDA freq :
    Let(line.parts[2], LAMBDA val1 :
    Let(IF Len(line.parts) >= 3 /\ ~Falsy(line.parts[3]) THEN line.parts[3] ELSE Zero,
        LAMBDA phase :
        IF IsNaN(freq) \/ IsNaN(val1) THEN <<>>
        ELSE IF type = "frd" THEN <<[freq |-> freq, spl |-> val1, phase |-> phase]>>
        ELSE IF type = "zma" THEN <<[freq |-> freq, impedance |-> val1, phase |-> phase]>>
        ELSE <<>>)))

\* a mutation: the points of the later lines come first
RECURSIVE parseFrequencyData_unshift(_, _)
parseFrequencyData_unshift(lines, type) ==
    IF lines = <<>> THEN <<>>
    ELSE parseFrequencyData_unshift(Tail(lines), type) \o ParseLine(Head(lines), type)

\* the points of the lines in file order; nothing sorts them
RECURSIVE parseFrequencyData(_, _)
parseFrequencyData(lines, type) ==
    IF lines = <<>> THEN <<>>
    ELSE ParseLine(Head(lines), type) \o parseFrequencyData(Tail(lines), type)

---------------------------------------------------------------------------
(* The crossover solver: calculateCrossoverImpedanceAndTransfer *)

\* const Z_EAR_REF_MAG = 163.5
Z_EAR_REF_MAG == Rat(327, 2)

\* const omega = 2 * Math.PI * freq, in units of 2 * pi * 640 rad/s.  The
\* factor, and the 1e-6 and 1e-3 of the reactances, are units of the
\* element values: a capacitor of value v has the reactance
\* -1 / (omega * v) and an inductor omega * v.
Omega(freq) == RDiv(freq, Num(640))

\* getEarSimulatorImpedance(freq).  The arithmetic of the IEC 60318-4
\* equivalent circuit is not modelled: its result for the current settings
\* is the field network of the settings, a resistance R and an inductance
\* L with Zear = R + j * omega * L, chosen together with the settings.
getEarSimulatorImpedance(sim, freq) ==
    IF ~sim.enabled THEN Cx(Z_EAR_REF_MAG, Zero)
    ELSE Cx(sim.network.R, RMul(Omega(freq), sim.network.L))

\* [...elements].sort((a, b) => b.order - a.order): a stable sort, the
\* element e inserted behind every element whose order is not smaller
RECURSIVE InsertDescending(_, _)
InsertDescending(sorted, e) ==
    IF sorted = <<>> THEN <<e>>
    ELSE IF Head(sorted).order >= e.order
         THEN <<Head(sorted)>> \o InsertDescending(Tail(sorted), e)
         ELSE <<e>> \o sorted

RECURSIVE SortDescending(_)
SortDescending(elements) ==
    IF elements = <<>> THEN <<>>
    ELSE InsertDescending(SortDescending(SubSeq(elements, 1, Len(elements) - 1)),
                          elements[Len(elements)])

\* a mutation: the elements are walked in ascending order key
RECURSIVE SortAscending_mutant(_)
SortAscending_mutant(elements) ==
    IF elements = <<>> THEN <<>>
    ELSE LET rest == SortAscending_mutant(SubSeq(elements, 1, Len(elements) - 1))
             e == elements[Len(elements)]
             before == SelectSeq(rest, LAMBDA x : x.order <= e.order)
             after == SelectSeq(rest, LAMBDA x : x.order > e.order)
         IN  before \o <<e>> \o after

\* the impedance of one element, with its parasitic resistance
ElementImpedance(element, omega) ==
    CASE element.type = "capacitor" ->
             complexAdd(
                 Cx(Zero, IF RLt(EPSILON, omega)
                          THEN RDiv(Num(-1), RMul(omega, element.value))
                          ELSE RDiv(Num(-1), RMul(EPSILON, element.value))),
                 Cx(IF Falsy(element.esr) THEN Zero ELSE element.esr, Zero))
      [] element.type = "inductor" ->
             complexAdd(
                 Cx(Zero, RMul(omega, element.value)),
                 Cx(IF Falsy(element.dcr) THEN Zero ELSE element.dcr, Zero))
      [] OTHER -> Cx(element.value, Zero)

\* a mutation of the series step: the divider is left out, H is unchanged
SeriesStep_noDivider(chain, Zelement) ==
    [Z |-> complexAdd(chain.Z, Zelement), H |-> chain.H]

\* a mutation of the series step: the divider takes the element's leg
SeriesStep_elementLeg(chain, Zelement) ==
    [Z |-> complexAdd(chain.Z, Zelement),
     H |-> complexMultiply(chain.H,
               complexDivide(Zelement, complexAdd(Zelement, chain.Z)))]

\* if (element.series): H_current *= Z_current / (Zelement + Z_current),
\* Z_current += Zelement
SeriesStep(chain, Zelement) ==
    [Z |-> complexAdd(chain.Z, Zelement),
     H |-> complexMultiply(chain.H,
               complexDivide(chain.Z, complexAdd(Zelement, chain.Z)))]

\* a mutation of the parallel step: the element also divides the voltage
ParallelStep_divides(chain, Zelement) ==
    [Z |-> parallelImpedance(chain.Z, Zelement),
     H |-> complexMultiply(chain.H,
               complexDivide(Zelement, complexAdd(Zelement, chain.Z)))]

\* else: Z_current = parallelImpedance(Z_current, Zelement), H_current kept
ParallelStep(chain, Zelement) ==
    [Z |-> parallelImpedance(chain.Z, Zelement), H |-> chain.H]

\* for (const element of sortedElements) { ... }
RECURSIVE WalkChain(_, _, _)
WalkChain(sortedElements, omega, chain) ==
    IF sortedElements = <<>> THEN chain
    ELSE Let(Head(sortedElements), LAMBDA element :
         Let(ElementImpedance(element, omega), LAMBDA Zelement :
             WalkChain(Tail(sortedElements), omega,
                       IF element.series THEN SeriesStep(chain, Zelement)
                       ELSE ParallelStep(chain, Zelement))))

\* a mutation: the default impedance of a driver without data is 4 ohm
ZmaOrDefault_four(driverImpedanceData, impedanceMag, phaseDeg) ==
    IF driverImpedanceData # Null /\ driverImpedanceData.points # <<>>
       /\ impedanceMag # Null /\ phaseDeg # Null
    THEN Cx(RMul(impedanceMag, CosDeg(phaseDeg)),
            RMul(impedanceMag, SinDeg(phaseDeg)))
    ELSE Cx(Num(4), Zero)

\* let Zdriver = { real: 8, imag: 0 }, replaced by the interpolated ZMA
\* sample (polar to rectangular) when the driver has impedance data and
\* both interpolations return a value
ZmaOrDefault(driverImpedanceData, impedanceMag, phaseDeg) ==
    IF driverImpedanceData # Null /\ driverImpedanceData.points # <<>>
       /\ impedanceMag # Null /\ phaseDeg # Null
    THEN Cx(RMul(impedanceMag, CosDeg(phaseDeg)),
            RMul(impedanceMag, SinDeg(phaseDeg)))
    ELSE Cx(Num(8), Zero)

DriverImpedance(freq, driverImpedanceData) ==
    ZmaOrDefault(driverImpedanceData,
                 interpolateFrequencyData(driverImpedanceData, freq, "impedance"),
                 interpolateFrequencyData(driverImpedanceData, freq, "phase"))

\* Z_current and H_current after the loop: the total electrical impedance
\* and the transfer function V_driver / V_source
SolveChain(freq, elements, driverImpedanceData) ==
    WalkChain(SortDescending(elements), Omega(freq),
              [Z |-> DriverImpedance(freq, driverImpedanceData),
               H |-> Cx(One, Zero)])

\* a mutation: the acoustic gain is added whenever the ear simulator is on
EarBoostApplies_enabledOnly(sim, frdCompensated) == sim.enabled

\* earSimulator.enabled && !frdCompensated
EarBoostApplies(sim, frdCompensated) == sim.enabled /\ ~frdCompensated

\* (Zear_magnitude / Z_EAR_REF_MAG) as a magnitude
EarRatio(sim, freq) ==
    Surd(RDiv(complexMagnitude(getEarSimulatorImpedance(sim, freq)).sq,
              RMul(Z_EAR_REF_MAG, Z_EAR_REF_MAG)))

earBoostDb(sim, freq, frdCompensated) ==
    IF EarBoostApplies(sim, frdCompensated)
    THEN Log20(EarRatio(sim, freq), TRUE)
    ELSE DbNum(Zero)

calculateCrossoverImpedanceAndTransfer(sim, freq, elements, driverImpedanceData, sourceVoltage, frdCompensated) ==
    Let(SolveChain(freq, elements, driverImpedanceData), LAMBDA chain :
    Let(Log20(complexMagnitude(chain.H), TRUE), LAMBDA electricalGainDb :
    Let(Log20Num(sourceVoltage, TRUE), LAMBDA voltageGainDb :
        [impedanceMagnitude |-> complexMagnitude(chain.Z),
         impedancePhase |-> complexPhase(chain.Z),
         totalGainDb |-> DbAdd(DbAdd(electricalGainDb, voltageGainDb),
                               earBoostDb(sim, freq, frdCompensated)),
         electricalPhaseDeg |-> complexPhase(chain.H)])))

---------------------------------------------------------------------------
(* The solvers of the two older copies *)

\* src/unnamed/part_000: the roll-off applies to every value, no guard
interpolateFrequencyData_v0(data, targetFreq, accessor) ==
    IF data = Null \/ data.points = <<>> THEN Null
    ELSE
    Let(FindBracket(data.points, targetFreq, 1, 0), LAMBDA idx :
    Let(idx[1], LAMBDA lowerIdx :
    Let(idx[2], LAMBDA upperIdx :
        IF lowerIdx = 0 /\ upperIdx # 0 THEN getValue(accessor, data.points[upperIdx])
        ELSE IF lowerIdx # 0 /\ upperIdx = 0
             THEN Let(data.points[Len(data.points)], LAMBDA lastPoint :
                  Let(RSub(Log10(targetFreq), Log10(lastPoint.freq)), LAMBDA octavesAbove :
                      RAdd(getValue(accessor, lastPoint), RMul(Num(-6), octavesAbove))))
        ELSE IF lowerIdx = upperIdx THEN getValue(accessor, data.points[lowerIdx])
        ELSE
        Let(data.points[lowerIdx], LAMBDA lower :
        Let(data.points[upperIdx], LAMBDA upper :
        Let(RDiv(RSub(targetFreq, lower.freq), RSub(upper.freq, lower.freq)), LAMBDA t :
        Let(getValue(accessor, lower), LAMBDA lowerVal :
        Let(getValue(accessor, upper), LAMBDA upperVal :
            RAdd(lowerVal, RMul(RSub(upperVal, lowerVal), t))))))))))

DriverImpedance_App(freq, driverImpedanceData) ==
    ZmaOrDefault(driverImpedanceData,
                 interpolateFrequencyData_App(driverImpedanceData, freq, "impedance"),
                 interpolateFrequencyData_App(driverImpedanceData, freq, "phase"))

DriverImpedance_v0(freq, driverImpedanceData) ==
    ZmaOrDefault(driverImpedanceData,
                 interpolateFrequencyData_v0(driverImpedanceData, freq, "impedance"),
                 interpolateFrequencyData_v0(driverImpedanceData, freq, "phase"))

\* src/src/App.js
parallelImpedance_App(z1, z2) ==
    complexDivide_App(complexMultiply(z1, z2), complexAdd(z1, z2))

\* src/src/App.js: no parasitic resistance, and -1e12 for a capacitor at DC
ElementImpedance_App(element, omega) ==
    CASE element.type = "capacitor" ->
             Cx(Zero, IF RLt(Rat(1, 1000000), omega)
                      THEN RDiv(Num(-1), RMul(omega, element.value))
                      ELSE RDiv(Num(-1), EPSILON))
      [] element.type = "inductor" -> Cx(Zero, RMul(omega, element.value))
      [] OTHER -> Cx(element.value, Zero)

\* [...elements].sort((a, b) => a.order - b.order), stable
RECURSIVE SortAscending(_)
SortAscending(elements) ==
    IF elements = <<>> THEN <<>>
    ELSE LET rest == SortAscending(SubSeq(elements, 1, Len(elements) - 1))
             e == elements[Len(elements)]
             before == SelectSeq(rest, LAMBDA x : x.order <= e.order)
             after == SelectSeq(rest, LAMBDA x : x.order > e.order)
         IN  before \o <<e>> \o after

RECURSIVE ParallelAll_App(_, _, _)
ParallelAll_App(parallelElements, omega, Z_network) ==
    IF parallelElements = <<>> THEN Z_network
    ELSE ParallelAll_App(Tail(parallelElements), omega,
             parallelImpedance_App(Z_network,
                 ElementImpedance_App(Head(parallelElements), omega)))

RECURSIVE SeriesSum_App(_, _, _)
SeriesSum_App(seriesElements, omega, Z_series_elements) ==
    IF seriesElements = <<>> THEN Z_series_elements
    ELSE SeriesSum_App(Tail(seriesElements), omega,
             complexAdd(Z_series_elements,
                 ElementImpedance_App(Head(seriesElements), omega)))

\* src/src/App.js: every parallel element is applied to the driver, the
\* series elements are summed on top, H = Z_network / Z_total_electrical
SolveChain_App(freq, elements, driverImpedanceData) ==
    Let(Omega(freq), LAMBDA omega :
    Let(SortAscending(elements), LAMBDA sortedElements :
    Let(SelectSeq(sortedElements, LAMBDA el : el.series), LAMBDA seriesElements :
    Let(SelectSeq(sortedElements, LAMBDA el : ~el.series), LAMBDA parallelElements :
    Let(ParallelAll_App(parallelElements, omega,
                        DriverImpedance_App(freq, driverImpedanceData)),
        LAMBDA Z_network :
    Let(complexAdd(SeriesSum_App(seriesElements, omega, Cx(Zero, Zero)), Z_network),
        LAMBDA Z_total_electrical :
        [Z |-> Z_total_electrical,
         H |-> complexDivide_App(Z_network, Z_total_electrical)]))))))

\* src/src/App.js: totalGainDb (attenuationDb); the acoustic gain is added
\* whenever the ear simulator is enabled, the logarithms have no guard
calculateCrossoverImpedanceAndTransfer_App(sim, freq, elements, driverImpedanceData, sourceVoltage) ==
    Let(SolveChain_App(freq, elements, driverImpedanceData), LAMBDA chain :
    Let(Log20(complexMagnitude(chain.H), FALSE), LAMBDA electricalGainDb :
    Let(Log20(EarRatio(sim, freq), FALSE), LAMBDA earBoost :
    Let(Log20Num(sourceVoltage, FALSE), LAMBDA voltageGainDb :
        [impedanceMagnitude |-> complexMagnitude(chain.Z),
         impedancePhase |-> complexPhase(chain.Z),
         attenuationDb |-> DbAdd(DbAdd(electricalGainDb, voltageGainDb),
                                 IF sim.enabled THEN earBoost ELSE DbNum(Zero))]))))

\* src/unnamed/part_000: no guard
complexDivide_v0(a, b) ==
    LET denom == RAdd(RMul(b.real, b.real), RMul(b.imag, b.imag))
    IN  [real |-> RDiv(RAdd(RMul(a.real, b.real), RMul(a.imag, b.imag)), denom),
         imag |-> RDiv(RSub(RMul(a.imag, b.real), RMul(a.real, b.imag)), denom)]

parallelImpedance_v0(z1, z2) ==
    complexDivide_v0(complexMultiply(z1, z2), complexAdd(z1, z2))

\* src/unnamed/part_000: the disabled ear simulator is 0 ohm
getEarSimulatorImpedance_v0(sim, freq) ==
    IF ~sim.enabled THEN Cx(Zero, Zero)
    ELSE Cx(sim.network.R, RMul(Omega(freq), sim.network.L))

ElementImpedance_v0(element, omega) ==
    CASE element.type = "capacitor" ->
             Cx(Zero, RDiv(Num(-1), RMul(omega, element.value)))
      [] element.type = "inductor" -> Cx(Zero, RMul(omega, element.value))
      [] element.type = "resistor" -> Cx(element.value, Zero)

RECURSIVE SeriesSum_v0(_, _, _)
SeriesSum_v0(seriesElements, omega, Zcrossover) ==
    IF seriesElements = <<>> THEN Zcrossover
    ELSE SeriesSum_v0(Tail(seriesElements), omega,
             complexAdd(Zcrossover, ElementImpedance_v0(Head(seriesElements), omega)))

RECURSIVE ParallelAll_v0(_, _, _)
ParallelAll_v0(parallelElements, omega, Zseries) ==
    IF parallelElements = <<>> THEN Zseries
    ELSE ParallelAll_v0(Tail(parallelElements), omega,
             parallelImpedance_v0(Zseries,
                 ElementImpedance_v0(Head(parallelElements), omega)))

\* src/unnamed/part_000: the load is the driver plus the ear simulator, the
\* series elements are added to it, the parallel elements shunt the sum,
\* and Htransfer = Zload / Ztotal
SolveChain_v0(sim, freq, elements, driverImpedanceData) ==
    Let(Omega(freq), LAMBDA omega :
    Let(complexAdd(DriverImpedance_v0(freq, driverImpedanceData),
                   getEarSimulatorImpedance_v0(sim, freq)), LAMBDA Zload :
    Let(SortAscending(elements), LAMBDA sortedElements :
    Let(SelectSeq(sortedElements, LAMBDA el : el.series), LAMBDA seriesElements :
    Let(SelectSeq(sortedElements, LAMBDA el : ~el.series), LAMBDA parallelElements :
    Let(ParallelAll_v0(parallelElements, omega,
            complexAdd(SeriesSum_v0(seriesElements, omega, Cx(Zero, Zero)), Zload)),
        LAMBDA Ztotal :
        [Z |-> Ztotal, H |-> complexDivide_v0(Zload, Ztotal)]))))))

---------------------------------------------------------------------------
(* The sweep: runSimulation of src/unnamed/part_001 *)

\* the step factor of the grid: 8 stands for the 1.015 of the source, so
\* that the grid has 4 frequencies (20, 160, 1280 and 10240 Hz) and not 464
GridStep == Num(8)

\* a mutation: freqRange.unshift(f), the grid comes out descending
RECURSIVE GridFrom_unshift(_)
GridFrom_unshift(f) ==
    IF RLe(f, Num(20000)) THEN GridFrom_unshift(RMul(f, GridStep)) \o <<f>> ELSE <<>>

\* for (let f = ...; f <= 20000; f *= 1.015) freqRange.push(f)
RECURSIVE GridFrom(_)
GridFrom(f) ==
    IF RLe(f, Num(20000)) THEN <<f>> \o GridFrom(RMul(f, GridStep)) ELSE <<>>

\* freqRange: the loop started at f = 20
Grid == GridFrom(Num(20))

\* SOURCE_PRESETS[preset].voltage
SOURCE_PRESETS ==
    [raw |-> Rat(1, 2), apple |-> One, jcally |-> Num(2), desktop |-> Num(4),
     custom |-> One]

\* sourcePreset === 'custom' ? customVoltage : SOURCE_PRESETS[sourcePreset].voltage
SourceVoltage(preset, voltage) ==
    IF preset = "custom" THEN voltage ELSE SOURCE_PRESETS[preset]

\* a field a result point does not have
Undefined == [undefined |-> TRUE]

\* point[`driver${idx}_${field}`] = value: the per-driver fields of a point
\* are kept in the order of their assignment, as Object.keys returns them
Entry(idx, field, value) == [idx |-> idx, field |-> field, value |-> value]

\* a mutation: every driver gets the elements of all drivers
DriverElements_all(elements, idx) == elements

\* crossoverElements.filter(el => el.driverIndex === idx)
DriverElements(elements, idx) ==
    SelectSeq(elements, LAMBDA el : el.driverIndex = idx)

\* the complex pressure 10^(spl / 20) * (cos, sin) of a driver: the
\* magnitude stays the decibel value level and vec is the direction.  On an
\* axis the direction is (CosDeg, SinDeg); off the axes it is (1, tan)
\* turned by the quarter turns of the angle, with the factor
\* 1 / sqrt(1 + tan^2) moved into the level.
ComplexPressure(spl, angle) ==
    IF angle.tan = Zero \/ ~IsFinite(angle.deg)
    THEN [level |-> spl, vec |-> Cx(CosDeg(angle.deg), SinDeg(angle.deg))]
    ELSE [level |-> DbAdd(spl, Log20(Surd(RDiv(One, RAdd(One, RMul(angle.tan, angle.tan)))),
                                     FALSE)),
          vec |-> RotateQuarter(Cx(One, angle.tan), Quarter(angle.deg))]

\* complexAdd over pressures: the directions of the pressures of one level
\* add up, pressures of different levels stay side by side
RECURSIVE AddPressure(_, _)
AddPressure(groups, p) ==
    IF groups = <<>> THEN <<p>>
    ELSE IF Head(groups).level = p.level
         THEN <<[level |-> p.level, vec |-> complexAdd(Head(groups).vec, p.vec)]>>
                  \o Tail(groups)
         ELSE <<Head(groups)>> \o AddPressure(Tail(groups), p)

\* a mutation: the sum is the last pressure alone
SumPressures_last(complexPressures, groups) ==
    IF complexPressures = <<>> THEN groups
    ELSE <<complexPressures[Len(complexPressures)]>>

\* complexPressures.reduce((a, b) => complexAdd(a, b), { real: 0, imag: 0 })
RECURSIVE SumPressures(_, _)
SumPressures(complexPressures, groups) ==
    IF complexPressures = <<>> THEN groups
    ELSE SumPressures(Tail(complexPressures),
                      AddPressure(groups, Head(complexPressures)))

\* the pressure of the group is NaN
NaNPressure(g) == IsNaN(g.level.num) \/ IsNaN(g.vec.real) \/ IsNaN(g.vec.imag)

\* the pressure of the group is exactly 0: 10^(-Infinity) or a zero vector
ZeroPressure(g) ==
    g.level.num = NegInfinity \/ (g.vec.real = Zero /\ g.vec.imag = Zero)

\* the magnitude of the group's pressure in units of 0.001 dB
GroupMilliDb(g) == MilliDb(g.level) + ApproxMilliDb(complexMagnitude(g.vec).sq) \div 2

\* (mag > floor) ? 20 * Math.log10(mag) : -200 for the magnitude mag of the
\* summed pressure and a floor of floorMilliDb (20 * log10(floor) in units
\* of 0.001 dB); a NaN magnitude is not above the floor.  Pressures of
\* several levels are left as their sum, mix, when the largest is 20 dB
\* above the floor.
SplAboveFloor(groups, floorMilliDb) ==
    IF \E i \in DOMAIN groups : NaNPressure(groups[i]) THEN DbNum(Num(-200))
    ELSE Let(SelectSeq(groups, LAMBDA g : ~ZeroPressure(g)), LAMBDA live :
         CASE live = <<>> -> DbNum(Num(-200))
           [] Len(live) = 1 ->
                  IF GroupMilliDb(live[1]) > floorMilliDb
                  THEN DbAdd(live[1].level, Log20(complexMagnitude(live[1].vec), FALSE))
                  ELSE DbNum(Num(-200))
           [] Len(live) > 1
              /\ \E i \in DOMAIN live : GroupMilliDb(live[i]) > floorMilliDb + 20000 ->
                  [mix |-> live])

\* a mutation: the total is always the floor value
TotalSpl_silent(groups) == DbNum(Num(-200))

\* (totalPressureMag > EPSILON) ? 20 * Math.log10(totalPressureMag) : -200
TotalSpl(groups) == SplAboveFloor(groups, -240000)

\* the accumulators of one grid frequency before the driver loop
NewPoint ==
    [entries |-> <<>>, totalAdmittance |-> Cx(Zero, Zero), driversInParallel |-> 0,
     complexPressures |-> <<>>]

\* 1. electrical and impedance calculation of one driver
ElectricalStep(driver, driverElements, idx, result, acc) ==
    IF driver.zma # Null \/ driverElements # <<>>
    THEN [acc EXCEPT
             !.entries = @ \o <<Entry(idx, "impedance", result.impedanceMagnitude),
                                Entry(idx, "phase", result.impedancePhase)>>,
             !.totalAdmittance =
                 complexAdd(@, complexDivide(Cx(One, Zero),
                                   PolarToComplex(result.impedanceMagnitude,
                                                  result.impedancePhase))),
             !.driversInParallel = @ + 1]
    ELSE acc

\* 2. acoustic and SPL calculation of one driver
AcousticStep(driver, freq, idx, result, acc) ==
    IF driver.frd = Null THEN acc
    ELSE
    Let(interpolateFrequencyData(driver.frd, freq, "spl"), LAMBDA baseSpl :
    Let(interpolateFrequencyData(driver.frd, freq, "phase"), LAMBDA baseAcousticPhase :
        IF baseSpl = Null THEN acc
        ELSE
        Let(DbAdd(DbNum(baseSpl), result.totalGainDb), LAMBDA finalDriverSpl :
        Let(Degrees(IF driver.polarity THEN Num(180) ELSE Zero), LAMBDA polarityPhase :
        Let(AngleAdd(AngleAdd(Degrees(baseAcousticPhase), result.electricalPhaseDeg),
                     polarityPhase), LAMBDA finalDriverPhaseDeg :
            [acc EXCEPT
                !.entries = Append(@, Entry(idx, "spl", finalDriverSpl)),
                !.complexPressures =
                    Append(@, ComplexPressure(finalDriverSpl, finalDriverPhaseDeg))])))))

\* the body of drivers.forEach((driver, idx) => ...)
DriverStep(driver, driverElements, sim, freq, sourceVoltage, idx, acc) ==
    IF driver.frd = Null /\ driver.zma = Null /\ driverElements = <<>> THEN acc
    ELSE Let(calculateCrossoverImpedanceAndTransfer(sim, freq, driverElements, driver.zma,
                                                    sourceVoltage, driver.frdCompensated),
             LAMBDA result :
             AcousticStep(driver, freq, idx, result,
                          ElectricalStep(driver, driverElements, idx, result, acc)))

\* drivers.forEach from index idx on (indexes from 0, as in the source)
RECURSIVE DriverLoop(_, _, _, _, _, _, _)
DriverLoop(driverList, elements, sim, freq, sourceVoltage, idx, acc) ==
    IF idx >= Len(driverList) THEN acc
    ELSE DriverLoop(driverList, elements, sim, freq, sourceVoltage, idx + 1,
                    DriverStep(driverList[idx + 1], DriverElements(elements, idx), sim,
                               freq, sourceVoltage, idx, acc))

\* 5. sum of the acoustic pressures and 6. total impedance: the point
FinishPoint(freq, driverList, acc) ==
    Let(complexDivide(Cx(One, Zero), acc.totalAdmittance), LAMBDA Z_total :
        [freq |-> freq,
         entries |-> acc.entries,
         total_spl |-> IF acc.complexPressures # <<>>
                       THEN TotalSpl(SumPressures(acc.complexPressures, <<>>))
                       ELSE Undefined,
         total_impedance |-> IF acc.driversInParallel > 0 THEN complexMagnitude(Z_total)
                             ELSE IF Len(driverList) > 0 THEN Num(1000000000)
                             ELSE Undefined,
         total_phase |-> IF acc.driversInParallel > 0 THEN complexPhase(Z_total)
                         ELSE IF Len(driverList) > 0 THEN Degrees(Zero)
                         ELSE Undefined])

\* freqRange.map(freq => ...): one point per grid frequency
SweepResults(driverList, elements, sim, sourceVoltage) ==
    [i \in DOMAIN Grid |->
        FinishPoint(Grid[i], driverList,
                    DriverLoop(driverList, elements, sim, Grid[i], sourceVoltage, 0,
                               NewPoint))]

---------------------------------------------------------------------------
(* The sweep: runSimulation of src/src/App.js *)

\* the body of drivers.forEach in src/src/App.js: a driver without a
\* response series is skipped altogether
DriverStep_App(driver, driverElements, sim, freq, sourceVoltage, idx, acc) ==
    IF driver.frd = Null THEN acc
    ELSE
    Let(calculateCrossoverImpedanceAndTransfer_App(sim, freq, driverElements, driver.zma,
                                                   sourceVoltage), LAMBDA result :
    Let(interpolateFrequencyData_App(driver.frd, freq, "spl"), LAMBDA baseSpl :
        IF baseSpl = Null THEN acc
        ELSE [acc EXCEPT
                 !.entries = @ \o <<Entry(idx, "spl", DbAdd(DbNum(baseSpl),
                                                            result.attenuationDb)),
                                    Entry(idx, "impedance", result.impedanceMagnitude),
                                    Entry(idx, "phase", result.impedancePhase)>>,
                 !.totalAdmittance =
                     complexAdd(@, complexDivide_App(Cx(One, Zero),
                                       PolarToComplex(result.impedanceMagnitude,
                                                      result.impedancePhase))),
                 !.driversInParallel = @ + 1]))

RECURSIVE DriverLoop_App(_, _, _, _, _, _, _)
DriverLoop_App(driverList, elements, sim, freq, sourceVoltage, idx, acc) ==
    IF idx >= Len(driverList) THEN acc
    ELSE DriverLoop_App(driverList, elements, sim, freq, sourceVoltage, idx + 1,
                        DriverStep_App(driverList[idx + 1], DriverElements(elements, idx),
                                       sim, freq, sourceVoltage, idx, acc))

\* Object.keys(point).filter(k => k.endsWith('_spl')).map((k, idx) => ...):
\* the pressure of the idx-th SPL field of the point gets the sign of
\* drivers[idx], the idx-th driver of the list
RECURSIVE SplValues_App(_, _, _)
SplValues_App(splEntries, driverList, idx) ==
    IF splEntries = <<>> THEN <<>>
    ELSE <<[level |-> Head(splEntries).value,
            vec |-> Cx(IF idx < Len(driverList) /\ driverList[idx + 1].polarity
                       THEN Num(-1) ELSE One, Zero)]>>
             \o SplValues_App(Tail(splEntries), driverList, idx + 1)

\* (absSum > 1e-10) ? 20 * Math.log10(absSum) : -200
TotalSpl_App(groups) == SplAboveFloor(groups, -200000)

FinishPoint_App(freq, driverList, acc) ==
    Let(complexDivide_App(Cx(One, Zero), acc.totalAdmittance), LAMBDA Z_total :
    Let(SplValues_App(SelectSeq(acc.entries, LAMBDA e : e.field = "spl"), driverList, 0),
        LAMBDA splValues :
        [freq |-> freq,
         entries |-> acc.entries,
         total_spl |-> IF splValues # <<>> THEN TotalSpl_App(SumPressures(splValues, <<>>))
                       ELSE Undefined,
         total_impedance |-> IF acc.driversInParallel > 0 THEN complexMagnitude(Z_total)
                             ELSE Undefined,
         total_phase |-> IF acc.driversInParallel > 0 THEN complexPhase(Z_total)
                         ELSE Undefined]))

SweepResults_App(driverList, elements, sim, sourceVoltage) ==
    [i \in DOMAIN Grid |->
        FinishPoint_App(Grid[i], driverList,
                        DriverLoop_App(driverList, elements, sim, Grid[i], sourceVoltage,
                                       0, NewPoint))]

---------------------------------------------------------------------------
(* The component state after construction (the useState initial values) *)

EditorInit ==
    /\ drivers = <<>>
    /\ crossoverElements = <<>>
    /\ simulationData = Null
    /\ earSimulator = [enabled |-> TRUE, canalVolume |-> One,
                       canalLength |-> Rat(6, 5), drumCompliance |-> One,
                       leakage |-> Zero]
    /\ sourcePreset = "apple"
    /\ customVoltage = One
    /\ uploads = <<>>

---------------------------------------------------------------------------
(* complexDivide called on its own: SpecDivide *)

\* the largest numerator and denominator of the coefficients drawn as inputs
MaxCoef == 2

Coefs == {Rat(i, j) : i \in -MaxCoef..MaxCoef, j \in 1..MaxCoef}

\* components of a denominator: ordinary values, values of the size of
\* EPSILON and of RESIDUE
SmallParts ==
    Coefs \cup {RMul(c, EPSILON) : c \in Coefs} \cup {RESIDUE, RNeg(RESIDUE)}

\* components of a numerator
NumeratorParts == {Zero, One, Num(-MaxCoef), Infinity, NaN}

InitDivide ==
    /\ EditorInit
    /\ probe \in [op : {"args"},
                  a : {Cx(x, y) : x \in NumeratorParts, y \in {Zero, One}},
                  b : {Cx(x, y) : x \in SmallParts, y \in SmallParts},
                  out : {Cx(Zero, Zero)}]

Divide ==
    /\ probe.op = "args"
    /\ probe' = [probe EXCEPT !.op = "complexDivide",
                              !.out = complexDivide(probe.a, probe.b)]
    /\ UNCHANGED editor

Divide_App ==
    /\ probe.op = "args"
    /\ probe' = [probe EXCEPT !.op = "complexDivide_App",
                              !.out = complexDivide_App(probe.a, probe.b)]
    /\ UNCHANGED editor

NextDivide == Divide \/ Divide_App

SpecDivide == InitDivide /\ [][NextDivide]_vars

\* |b| < EPSILON, as |b|^2 < EPSILON^2
BelowFloor(b) ==
    RLt(RAdd(RMul(b.real, b.real), RMul(b.imag, b.imag)), RMul(EPSILON, EPSILON))

\* C1: whenever |b| is below the epsilon floor, complexDivide(a, b), in
\* every copy of the function the repository holds, returns {real: 0,
\* imag: 0} for every numerator a, and so no NaN or infinite component.
C1_DivideGuarded ==
    (probe.op \in {"complexDivide", "complexDivide_App"} /\ BelowFloor(probe.b))
        => probe.out = Cx(Zero, Zero)

\* C1 for src/unnamed/part_001 alone, whose guard is |denom| < EPSILON
C1_DivideGuarded_part001 ==
    (probe.op = "complexDivide" /\ BelowFloor(probe.b))
        => probe.out = Cx(Zero, Zero)

\* a call of the src/src/App.js copy with a tiny non-zero divisor and a
\* finite numerator that returns a component of the size of 1/EPSILON
C1_AppEscapes ==
    /\ probe.op = "complexDivide_App"
    /\ BelowFloor(probe.b)
    /\ IsFiniteCx(probe.a)
    /\ probe.out # Cx(Zero, Zero)

---------------------------------------------------------------------------
(* interpolateFrequencyData called on its own: SpecInterp *)

\* the longest series drawn as an input
MaxSamples == 2

\* sample frequencies two octaves apart, and targets on and between them
SampleFreqs == {Num(20), Num(80), Num(320)}

TargetFreqs == {Num(10), Num(20), Num(40), Num(80), Num(160), Num(320)}

SampleValues == {Zero, Num(4), Num(16)}

SamplePhases == {Zero, Num(180)}

FrdPoints == [freq : SampleFreqs, spl : SampleValues, phase : SamplePhases]

ZmaPoints == [freq : SampleFreqs, impedance : SampleValues, phase : SamplePhases]

SeriesOf(points) ==
    {Series(pts) : pts \in UNION {[1..n -> points] : n \in 1..MaxSamples}}

\* the series of a file whose first row is at 0 Hz: two rows of one value,
\* at 0 Hz and at 80 Hz
ZeroHzFrd ==
    {Series(<<[freq |-> Zero, spl |-> v, phase |-> Zero],
              [freq |-> Num(80), spl |-> v, phase |-> Zero]>>) : v \in {Num(4), Num(16)}}

ZeroHzZma ==
    {Series(<<[freq |-> Zero, impedance |-> v, phase |-> Zero],
              [freq |-> Num(80), impedance |-> v, phase |-> Zero]>>) : v \in {Num(4), Num(16)}}

InitInterp ==
    /\ EditorInit
    /\ \/ probe \in [op : {"args"}, data : SeriesOf(FrdPoints) \cup ZeroHzFrd,
                     targetFreq : TargetFreqs, accessor : {"spl", "phase"},
                     out : {Zero}]
       \/ probe \in [op : {"args"}, data : SeriesOf(ZmaPoints) \cup ZeroHzZma,
                     targetFreq : TargetFreqs, accessor : {"impedance", "phase"},
                     out : {Zero}]

Interpolate ==
    /\ probe.op = "args"
    /\ probe' = [probe EXCEPT
           !.op = "interpolateFrequencyData",
           !.out = interpolateFrequencyData(probe.data, probe.targetFreq,
                                            probe.accessor)]
    /\ UNCHANGED editor

Interpolate_App ==
    /\ probe.op = "args"
    /\ probe' = [probe EXCEPT
           !.op = "interpolateFrequencyData_App",
           !.out = interpolateFrequencyData_App(probe.data, probe.targetFreq,
                                                probe.accessor)]
    /\ UNCHANGED editor

NextInterp == Interpolate \/ Interpolate_App

SpecInterp == InitInterp /\ [][NextInterp]_vars

\* the value a sample stores in the field the accessor reads
StoredValue(accessor, p) ==
    CASE accessor = "spl" -> p.spl
      [] accessor = "impedance" -> p.impedance
      [] accessor = "phase" -> p.phase

Ascending(data) ==
    \A i \in 1..(Len(data.points) - 1) : RLe(data.points[i].freq, data.points[i + 1].freq)

\* C9: interpolating an ascending series at a target frequency equal to
\* the frequency of one of its samples returns the value stored in a sample
\* of that frequency, for each of the three accessors of the call sites.
C9_ExactSample ==
    (/\ probe.op = "interpolateFrequencyData"
     /\ Ascending(probe.data)
     /\ \E i \in DOMAIN probe.data.points : probe.data.points[i].freq = probe.targetFreq)
        => \E i \in DOMAIN probe.data.points :
               /\ probe.data.points[i].freq = probe.targetFreq
               /\ probe.out = StoredValue(probe.accessor, probe.data.points[i])

\* C9 where no sample stores a zero impedance: then the exact sample is
\* returned
C9_ExactSample_nonzero ==
    (/\ probe.op = "interpolateFrequencyData"
     /\ Ascending(probe.data)
     /\ \A i \in DOMAIN probe.data.points :
            probe.accessor = "impedance" => probe.data.points[i].impedance # Zero
     /\ \E i \in DOMAIN probe.data.points : probe.data.points[i].freq = probe.targetFreq)
        => \E i \in DOMAIN probe.data.points :
               /\ probe.data.points[i].freq = probe.targetFreq
               /\ probe.out = StoredValue(probe.accessor, probe.data.points[i])

\* an impedance series is read at the frequency of a sample that stores
\* 0 ohm and the result is the default 8 ohm
C9_ZeroBecomesDefault ==
    /\ probe.op = "interpolateFrequencyData"
    /\ probe.accessor = "impedance"
    /\ Len(probe.data.points) = 1
    /\ probe.data.points[1].freq = probe.targetFreq
    /\ probe.data.points[1].impedance = Zero
    /\ probe.out = Num(8)

\* the target lies strictly between the two samples of an ascending
\* two-sample series
Bracketed ==
    /\ Len(probe.data.points) = 2
    /\ RLt(probe.data.points[1].freq, probe.targetFreq)
    /\ RLt(probe.targetFreq, probe.data.points[2].freq)

\* the position of the target between the samples on the log-frequency axis
LogPosition ==
    RDiv(RSub(Log10(probe.targetFreq), Log10(probe.data.points[1].freq)),
         RSub(Log10(probe.data.points[2].freq), Log10(probe.data.points[1].freq)))

\* C10: when the target lies strictly between two bracketing samples whose
\* values are positive, SPL and impedance values are interpolated in the
\* log-of-value domain, 10^(log10(v_lo) + t * (log10(v_hi) - log10(v_lo))),
\* and phase values linearly, in both copies of the interpolator.
C10_LogDomain ==
    (/\ probe.op \in {"interpolateFrequencyData", "interpolateFrequencyData_App"}
     /\ Bracketed
     /\ RLt(Zero, StoredValue(probe.accessor, probe.data.points[1]))
     /\ RLt(Zero, StoredValue(probe.accessor, probe.data.points[2])))
        => LET lo == StoredValue(probe.accessor, probe.data.points[1])
               hi == StoredValue(probe.accessor, probe.data.points[2])
           IN  IF probe.accessor = "phase"
               THEN probe.out = RAdd(lo, RMul(RSub(hi, lo), LogPosition))
               ELSE probe.out = LogInterpolate(lo, hi, LogPosition)

\* 4 ohm at 20 Hz and 16 ohm at 80 Hz read at 40 Hz, half way on the
\* log-frequency axis: the result is the arithmetic mean 10, where the
\* log-of-value domain gives the geometric mean 8
C10_LinearInValue ==
    /\ probe.op = "interpolateFrequencyData"
    /\ probe.accessor = "impedance"
    /\ Bracketed
    /\ probe.data.points[1].impedance = Num(4)
    /\ probe.data.points[2].impedance = Num(16)
    /\ LogPosition = Rat(1, 2)
    /\ probe.out = Num(10)

\* the target lies above the frequency of every sample of the series
AboveBand ==
    \A i \in DOMAIN probe.data.points : RLt(probe.data.points[i].freq, probe.targetFreq)

\* the sample of the highest frequency of an ascending series: the last one
TopOfBand == probe.data.points[Len(probe.data.points)]

\* C11: when the target frequency is above the maximum frequency of an
\* ascending series, the interpolator returns the value stored in the
\* top-of-band sample unchanged, with no roll-off subtracted, for the SPL,
\* the impedance and the phase accessor, in both copies.
C11_BoundaryValue ==
    (/\ probe.op \in {"interpolateFrequencyData", "interpolateFrequencyData_App"}
     /\ Ascending(probe.data)
     /\ AboveBand)
        => probe.out = StoredValue(probe.accessor, TopOfBand)

\* C11 for src/unnamed/part_001 alone, where no sample stores a zero
\* impedance: the boundary value is returned
C11_BoundaryValue_part001 ==
    (/\ probe.op = "interpolateFrequencyData"
     /\ Ascending(probe.data)
     /\ AboveBand
     /\ probe.accessor = "impedance" => TopOfBand.impedance # Zero)
        => probe.out = StoredValue(probe.accessor, TopOfBand)

\* src/src/App.js reads a series whose only sample is 16 dB at 20 Hz one
\* octave above it, at 40 Hz, and returns 10 dB: 6 dB are subtracted
C11_RollOffSubtracted ==
    /\ probe.op = "interpolateFrequencyData_App"
    /\ probe.accessor = "spl"
    /\ Len(probe.data.points) = 1
    /\ probe.data.points[1].freq = Num(20)
    /\ probe.data.points[1].spl = Num(16)
    /\ probe.targetFreq = Num(40)
    /\ probe.out = Num(10)

\* the lines of a file that holds the samples of a series, one per line,
\* in the order given
FileLines(points, accessor) ==
    [i \in DOMAIN points |->
        Line(FALSE, <<points[i].freq, StoredValue(accessor, points[i]), points[i].phase>>)]

FileType(data) == IF "spl" \in DOMAIN data.points[1] THEN "frd" ELSE "zma"

ValueColumn(data) == IF FileType(data) = "frd" THEN "spl" ELSE "impedance"

\* the series the upload of these lines stores on a driver
Uploaded(points, data) ==
    Series(parseFrequencyData(FileLines(points, ValueColumn(data)), FileType(data)))

\* the sequences that hold the rows of points in another order
Reordered(points) ==
    {[i \in DOMAIN points |-> points[p[i]]] :
        p \in {q \in [DOMAIN points -> DOMAIN points] :
                   \A i, j \in DOMAIN points : i # j => q[i] # q[j]}}

DistinctFreqs(points) ==
    \A i, j \in DOMAIN points : i # j => points[i].freq # points[j].freq

\* C12: a measurement series is sorted by frequency before it is
\* interpolated: two files that hold the same rows, of different
\* frequencies, in different orders give the same value at every target
\* frequency.
C12_RowOrderIrrelevant ==
    (/\ probe.op = "interpolateFrequencyData"
     /\ DistinctFreqs(probe.data.points)
     /\ Uploaded(probe.data.points, probe.data) = probe.data)
        => \A rows \in Reordered(probe.data.points) :
               interpolateFrequencyData(Uploaded(rows, probe.data), probe.targetFreq,
                                        probe.accessor) = probe.out

\* the rows 80 Hz 16 dB and 20 Hz 4 dB, in this order, are read at 20 Hz:
\* the loop stops at the first row, which lies above the target, and the
\* result is its 16 dB, where the rows in ascending order give 4 dB
C12_FileOrderKept ==
    /\ probe.op = "interpolateFrequencyData"
    /\ probe.accessor = "spl"
    /\ Len(probe.data.points) = 2
    /\ probe.data.points[1].freq = Num(80) /\ probe.data.points[1].spl = Num(16)
    /\ probe.data.points[2].freq = Num(20) /\ probe.data.points[2].spl = Num(4)
    /\ Uploaded(probe.data.points, probe.data) = probe.data
    /\ probe.targetFreq = Num(20)
    /\ probe.out = Num(16)
    /\ interpolateFrequencyData(Uploaded(<<probe.data.points[2], probe.data.points[1]>>,
                                         probe.data), Num(20), "spl") = Num(4)

\* the values of the samples that bracket the target: the last sample at
\* or below it and the first at or above it, or the one of them there is
BracketValues(points, targetFreq, accessor) ==
    LET below == {i \in DOMAIN points : RLe(points[i].freq, targetFreq)}
        above == {i \in DOMAIN points : RLe(targetFreq, points[i].freq)}
        lower == CHOOSE i \in below : \A j \in below : j <= i
        upper == CHOOSE i \in above : \A j \in above : i <= j
    IN  {StoredValue(accessor, points[i]) :
             i \in (IF below = {} THEN {} ELSE {lower})
                       \cup (IF above = {} THEN {} ELSE {upper})}

\* the value is finite and lies between the values, bounds included
Between(value, values) ==
    /\ value # Null
    /\ IsFinite(value)
    /\ \E v \in values : RLe(v, value)
    /\ \E v \in values : RLe(value, v)

\* C27: for every non-empty series parseFrequencyData can produce, 0 Hz
\* included, whose rows are in non-decreasing frequency order, and every
\* frequency of the grid (20 Hz and above), the interpolator returns a
\* finite value between the values of the two bracketing samples.
C27_BetweenSamples ==
    (/\ probe.op = "interpolateFrequencyData"
     /\ Uploaded(probe.data.points, probe.data) = probe.data
     /\ Ascending(probe.data)
     /\ RLe(Num(20), probe.targetFreq))
        => Between(probe.out,
                   BracketValues(probe.data.points, probe.targetFreq, probe.accessor))

\* C27 for series without a row at 0 Hz and without a value of 0 (which
\* the accessors of the impedance and the phase replace, as in C9)
C27_BetweenSamples_positive ==
    (/\ probe.op = "interpolateFrequencyData"
     /\ Uploaded(probe.data.points, probe.data) = probe.data
     /\ Ascending(probe.data)
     /\ RLe(Num(20), probe.targetFreq)
     /\ \A i \in DOMAIN probe.data.points :
            /\ probe.data.points[i].freq # Zero
            /\ probe.accessor = "impedance" => probe.data.points[i].impedance # Zero)
        => Between(probe.out,
                   BracketValues(probe.data.points, probe.targetFreq, probe.accessor))

\* rows at 0 Hz and 80 Hz, both 16 dB, read at 20 Hz: Math.log10(0) is
\* -Infinity, t is Infinity / Infinity and the value returned is NaN
C27_ZeroHertzRow ==
    /\ probe.op = "interpolateFrequencyData"
    /\ probe.accessor = "spl"
    /\ Len(probe.data.points) = 2
    /\ probe.data.points[1].freq = Zero /\ probe.data.points[1].spl = Num(16)
    /\ probe.data.points[2].freq = Num(80) /\ probe.data.points[2].spl = Num(16)
    /\ Uploaded(probe.data.points, probe.data) = probe.data
    /\ probe.targetFreq = Num(20)
    /\ IsNaN(probe.out)

---------------------------------------------------------------------------
(* calculateCrossoverImpedanceAndTransfer called on its own: SpecSolver *)

\* the longest chain drawn as an input
MaxElements == 2

ElementTypes == {"resistor", "capacitor", "inductor"}

\* resistances of 4 and 8 ohm, and the capacitor and the inductor whose
\* reactance is 8 ohm at omega = 1
ElementValues(type) ==
    CASE type = "resistor" -> {Num(4), Num(8)}
      [] type = "capacitor" -> {Rat(1, 8)}
      [] type = "inductor" -> {Num(8)}

\* one element up to its identity and order key: every type, value and
\* placement, without parasitic resistance
ElementKinds ==
    UNION {[type : {type}, value : ElementValues(type), series : BOOLEAN] :
               type \in ElementTypes}

\* the order keys addCrossoverElement and moveElement produce for n
\* elements: a permutation of 0..n-1
OrderKeys(n) ==
    {p \in [1..n -> 0..(n - 1)] : \A i, j \in 1..n : i # j => p[i] # p[j]}

\* the elements of one driver
ChainsOfLength(n) ==
    {[i \in 1..n |-> [id |-> i, driverIndex |-> 0, type |-> kinds[i].type,
                      value |-> kinds[i].value, series |-> kinds[i].series,
                      order |-> keys[i], esr |-> Zero, dcr |-> Zero]] :
         kinds \in [1..n -> ElementKinds], keys \in OrderKeys(n)}

Chains == UNION {ChainsOfLength(n) : n \in 0..MaxElements}

\* values of the ear simulator's network: 8 ohm, and 8 ohm with an
\* inductance of 8
EarNetworks == {[R |-> Num(8), L |-> Zero], [R |-> Num(8), L |-> Num(8)]}

\* the settings of the ear simulator with the network net
EarSetting(enabled, net) ==
    [enabled |-> enabled, canalVolume |-> One, canalLength |-> Rat(6, 5),
     drumCompliance |-> One, leakage |-> Zero, network |-> net]

\* the ear simulator off, and on with each value of its network
EarSettings ==
    {EarSetting(FALSE, [R |-> Num(8), L |-> Zero])}
        \cup {EarSetting(TRUE, net) : net \in EarNetworks}

\* no impedance data (the 8 ohm default), and a one-sample series of 4 ohm
\* at 0 degrees
ZmaInputs ==
    {Null,
     Series(<<[freq |-> Num(640), impedance |-> Num(4), phase |-> Zero]>>)}

InitSolver ==
    /\ drivers = <<>>
    /\ crossoverElements = <<>>
    /\ simulationData = Null
    /\ sourcePreset = "apple"
    /\ customVoltage = One
    /\ uploads = <<>>
    /\ earSimulator \in EarSettings
    /\ probe \in [op : {"args"}, freq : {Num(640)}, elements : Chains,
                  driverImpedanceData : ZmaInputs,
                  sourceVoltage : {One, Rat(1, 2)},
                  frdCompensated : BOOLEAN]

Solve ==
    /\ probe.op = "args"
    /\ probe' = [op |-> "solve", args |-> probe,
                 chain |-> SolveChain(probe.freq, probe.elements,
                                      probe.driverImpedanceData),
                 out |-> calculateCrossoverImpedanceAndTransfer(
                             earSimulator, probe.freq, probe.elements,
                             probe.driverImpedanceData, probe.sourceVoltage,
                             probe.frdCompensated)]
    /\ UNCHANGED editor

Solve_App ==
    /\ probe.op = "args"
    /\ probe' = [op |-> "solve_App", args |-> probe,
                 chain |-> SolveChain_App(probe.freq, probe.elements,
                                          probe.driverImpedanceData),
                 out |-> calculateCrossoverImpedanceAndTransfer_App(
                             earSimulator, probe.freq, probe.elements,
                             probe.driverImpedanceData, probe.sourceVoltage)]
    /\ UNCHANGED editor

Solve_v0 ==
    /\ probe.op = "args"
    /\ probe' = [op |-> "solve_v0", args |-> probe,
                 chain |-> SolveChain_v0(earSimulator, probe.freq, probe.elements,
                                         probe.driverImpedanceData)]
    /\ UNCHANGED editor

NextSolver == Solve \/ Solve_App \/ Solve_v0

SpecSolver == InitSolver /\ [][NextSolver]_vars

\* the chain of the call holds exactly one series and one parallel element
OneSeriesOneParallel ==
    /\ Len(probe.args.elements) = 2
    /\ probe.args.elements[1].series # probe.args.elements[2].series

\* the result of walking a chain of one series element (impedance Zs) and
\* one parallel element (impedance Zp) from the driver (impedance Zd)
\* outward, the element with the higher order key first
DriverOutward(Zd, Zs, Zp, seriesFirst) ==
    IF seriesFirst
    THEN [Z |-> parallelImpedance(complexAdd(Zd, Zs), Zp),
          H |-> complexDivide(Zd, complexAdd(Zs, Zd))]
    ELSE LET Zn == parallelImpedance(Zd, Zp)
         IN  [Z |-> complexAdd(Zn, Zs),
              H |-> complexDivide(Zn, complexAdd(Zs, Zn))]

\* C2: the solver walks a driver's elements in descending order key, from
\* the driver outward: for a chain of one series and one parallel element
\* its total impedance and transfer function are those of the walk that
\* starts with the element of the higher order key (so that the reverse
\* order gives another result), in both copies of the solver.
C2_DescendingWalk ==
    (probe.op \in {"solve", "solve_App"} /\ OneSeriesOneParallel)
        => LET els == probe.args.elements
               s == IF els[1].series THEN els[1] ELSE els[2]
               p == IF els[1].series THEN els[2] ELSE els[1]
               omega == Omega(probe.args.freq)
           IN  probe.chain =
                   DriverOutward(
                       DriverImpedance(probe.args.freq, probe.args.driverImpedanceData),
                       ElementImpedance(s, omega), ElementImpedance(p, omega),
                       s.order > p.order)

\* C2 for src/unnamed/part_001 alone
C2_DescendingWalk_part001 ==
    probe.op = "solve_App" \/ C2_DescendingWalk

\* the two elements with their order keys exchanged
Exchanged(elements) ==
    <<[elements[1] EXCEPT !.order = elements[2].order],
      [elements[2] EXCEPT !.order = elements[1].order]>>

\* a chain of one series and one parallel element for which the solver of
\* src/unnamed/part_001 returns another impedance or transfer function
\* when the order keys are exchanged
C2_OrderMatters ==
    /\ probe.op = "solve"
    /\ OneSeriesOneParallel
    /\ probe.chain # SolveChain(probe.args.freq, Exchanged(probe.args.elements),
                                probe.args.driverImpedanceData)

\* src/src/App.js: the order keys of a series and a parallel element never
\* change the result
C2_AppIgnoresOrder ==
    (probe.op = "solve_App" /\ OneSeriesOneParallel)
        => probe.chain = SolveChain_App(probe.args.freq,
                                        Exchanged(probe.args.elements),
                                        probe.args.driverImpedanceData)

\* the chain of the call is one series resistor
OneSeriesResistor ==
    /\ Len(probe.args.elements) = 1
    /\ probe.args.elements[1].type = "resistor"
    /\ probe.args.elements[1].series

\* the driver impedance of the call, when it is purely resistive
ResistiveDriver ==
    DriverImpedance(probe.args.freq, probe.args.driverImpedanceData).imag = Zero

SeriesResistorsOnly ==
    /\ probe.args.elements # <<>>
    /\ \A i \in DOMAIN probe.args.elements :
           /\ probe.args.elements[i].type = "resistor"
           /\ probe.args.elements[i].series
           /\ RSign(probe.args.elements[i].value) > 0

\* the sum of the values of the elements
RECURSIVE SumOfValues(_)
SumOfValues(elements) ==
    IF elements = <<>> THEN Zero
    ELSE RAdd(Head(elements).value, SumOfValues(Tail(elements)))

\* the elements with the order keys keys
Rekeyed(elements, keys) == [i \in DOMAIN elements |-> [elements[i] EXCEPT !.order = keys[i]]]

ParallelOnly ==
    /\ probe.args.elements # <<>>
    /\ \A i \in DOMAIN probe.args.elements : ~probe.args.elements[i].series

\* C4: for every chain of parallel elements only, the transfer function
\* stays H = 1 + 0j, in src/unnamed/part_001 and in src/unnamed/part_000.
C4_ParallelKeepsH ==
    (probe.op \in {"solve", "solve_v0"} /\ ParallelOnly)
        => probe.chain.H = Cx(One, Zero)

\* C4 for src/unnamed/part_001 alone: H = 1 + 0j, the electrical phase
\* shift is 0 and the electrical gain is 20 * log10(1 + EPSILON), the first
\* term of the total gain
C4_ParallelKeepsH_part001 ==
    (probe.op = "solve" /\ ParallelOnly)
        => /\ probe.chain.H = Cx(One, Zero)
           /\ probe.out.electricalPhaseDeg = Degrees(Zero)
           /\ probe.out.totalGainDb.logs[1] = [sq |-> One, guard |-> TRUE]

\* src/unnamed/part_000, ear simulator off: one 8 ohm parallel resistor at
\* the 8 ohm default driver gives H = 2, a gain of +6.02 dB
C4_v0Doubles ==
    /\ probe.op = "solve_v0"
    /\ ParallelOnly
    /\ Len(probe.args.elements) = 1
    /\ ~earSimulator.enabled
    /\ probe.chain = [Z |-> Cx(Num(4), Zero), H |-> Cx(Num(2), Zero)]

\* the electrical and the source voltage gain of the call, without the
\* acoustic gain of the ear simulator
GainWithoutEar(guard) ==
    DbAdd(Log20(complexMagnitude(probe.chain.H), guard),
          Log20Num(probe.args.sourceVoltage, guard))

\* 20 * log10(|Z_ear| / Z_ref) at the frequency of the call, with the
\* guard + EPSILON inside the logarithm in src/unnamed/part_001
EarGain(guard) ==
    Log20(Surd(RDiv(complexMagnitude(
                        getEarSimulatorImpedance(earSimulator, probe.args.freq)).sq,
                    RMul(Z_EAR_REF_MAG, Z_EAR_REF_MAG))), guard)

\* C8: the acoustic gain 20 * log10(|Z_ear| / Z_ref) is part of the total
\* gain exactly when the ear simulator is enabled and the driver's response
\* is not flagged as already compensated; otherwise nothing is added.
\* (src/src/App.js has no such flag: there no response is flagged.)
C8_EarGain ==
    /\ probe.op = "solve" =>
           probe.out.totalGainDb =
               IF earSimulator.enabled /\ ~probe.args.frdCompensated
               THEN DbAdd(GainWithoutEar(TRUE), EarGain(TRUE))
               ELSE GainWithoutEar(TRUE)
    /\ probe.op = "solve_App" =>
           probe.out.attenuationDb =
               IF earSimulator.enabled
               THEN DbAdd(GainWithoutEar(FALSE), EarGain(FALSE))
               ELSE GainWithoutEar(FALSE)

\* the ear simulator is enabled, the response is not flagged, and the
\* total gain carries the acoustic gain as one more term
C8_GainAdded ==
    /\ probe.op = "solve"
    /\ earSimulator.enabled
    /\ ~probe.args.frdCompensated
    /\ probe.out.totalGainDb # GainWithoutEar(TRUE)
    /\ probe.out.totalGainDb = DbAdd(GainWithoutEar(TRUE), EarGain(TRUE))

---------------------------------------------------------------------------
(* The sweep over drawn configurations *)

MaxDrivers == 2

\* a response series of level dB at 0 degrees from 20 Hz to the top of the
\* band (20480 Hz, the first lattice frequency above the grid)
FlatFrd(level) ==
    Series(<<[freq |-> Num(20), spl |-> Num(level), phase |-> Zero],
             [freq |-> Num(20480), spl |-> Num(level), phase |-> Zero]>>)

\* an impedance series of 8 ohm at 0 degrees over the same band
FlatZma ==
    Series(<<[freq |-> Num(20), impedance |-> Num(8), phase |-> Zero],
             [freq |-> Num(20480), impedance |-> Num(8), phase |-> Zero]>>)

\* the impedance series an uploaded file without a valid row leaves: []
EmptyZma == Series(parseFrequencyData(<<Line(TRUE, <<>>)>>, "zma"))

\* what a driver holds besides its identity: its two series, its polarity
\* and its compensation flag
DriverKinds ==
    [frd : {FlatFrd(120)}, zma : {Null}, polarity : BOOLEAN, frdCompensated : {TRUE}]
        \cup [frd : {FlatFrd(90)}, zma : {FlatZma}, polarity : {FALSE},
              frdCompensated : {FALSE}]
        \cup [frd : {Null}, zma : {FlatZma}, polarity : {FALSE}, frdCompensated : {TRUE}]
        \cup [frd : {FlatFrd(90)}, zma : {EmptyZma}, polarity : {FALSE},
              frdCompensated : {TRUE}]

\* driver lists of n drivers, as addDriver and the uploads build them
DriverLists(n) ==
    {[i \in 1..n |-> [id |-> i, name |-> i, frd |-> kinds[i].frd, zma |-> kinds[i].zma,
                      polarity |-> kinds[i].polarity,
                      frdCompensated |-> kinds[i].frdCompensated]] :
         kinds \in [1..n -> DriverKinds]}

\* an 8 ohm resistor on the driver at index idx
Resistor8(id, idx, series) ==
    [id |-> id, driverIndex |-> idx, type |-> "resistor", value |-> Num(8),
     series |-> series, order |-> 0, esr |-> Zero, dcr |-> Zero]

\* a series capacitor on the driver at index idx as addCrossoverElement
\* creates it, with the value the value input stores for an empty or zero
\* entry: parseFloat(e.target.value) || 0
Capacitor0(id, idx) ==
    [id |-> id, driverIndex |-> idx, type |-> "capacitor", value |-> Zero,
     series |-> TRUE, order |-> 0, esr |-> Rat(1, 20), dcr |-> Rat(1, 10)]

\* element collections for n drivers: none, a parallel resistor on the
\* first driver, the same series resistor on every driver, or a series
\* capacitor of 0 uF on the first driver
ElementLists(n) ==
    IF n = 0 THEN {<<>>}
    ELSE {<<>>, <<Resistor8(1, 0, FALSE)>>, [i \in 1..n |-> Resistor8(i, i - 1, TRUE)],
          <<Capacitor0(1, 0)>>}

\* the ear simulator off, and on with a network of 8 ohm and an inductance
\* of 8
SweepEarSettings ==
    {EarSetting(FALSE, [R |-> Num(8), L |-> Zero]),
     EarSetting(TRUE, [R |-> Num(8), L |-> Num(8)])}

\* the source settings: a preset of 0.5 V and the custom voltage, both with
\* the custom voltage field at 1 V
SourceSettings ==
    {[preset |-> "raw", voltage |-> One], [preset |-> "custom", voltage |-> One]}

\* driver lists in which a driver without a response series (it holds the
\* 8 ohm impedance series) precedes two drivers with the 120 dB response,
\* each of either polarity
SilentFirstLists ==
    {[i \in 1..3 |->
         [id |-> i, name |-> i,
          frd |-> IF i = 1 THEN Null ELSE FlatFrd(120),
          zma |-> IF i = 1 THEN FlatZma ELSE Null,
          polarity |-> IF i = 1 THEN FALSE ELSE inverted[i],
          frdCompensated |-> TRUE]] :
         inverted \in [2..3 -> BOOLEAN]}

\* a parallel resistor on the driver at index idx whose value input was
\* cleared or set to 0: a short across the driver
Resistor0(id, idx) ==
    [id |-> id, driverIndex |-> idx, type |-> "resistor", value |-> Zero,
     series |-> FALSE, order |-> 0, esr |-> Rat(1, 20), dcr |-> Rat(1, 10)]

\* one or two drivers with the 90 dB response and the 8 ohm impedance
\* series (the first is the one that gets the short)
ShortedLists ==
    {[i \in 1..n |-> [id |-> i, name |-> i, frd |-> FlatFrd(90), zma |-> FlatZma,
                      polarity |-> FALSE, frdCompensated |-> TRUE]] : n \in 1..2}

InitSweep ==
    /\ \/ \E n \in 0..MaxDrivers :
              /\ drivers \in DriverLists(n)
              /\ crossoverElements \in ElementLists(n)
       \/ /\ drivers \in SilentFirstLists
          /\ crossoverElements = <<>>
       \/ /\ drivers \in ShortedLists
          /\ crossoverElements = <<Resistor0(1, 0)>>
    /\ simulationData = Null
    /\ earSimulator \in SweepEarSettings
    /\ \E source \in SourceSettings :
           /\ sourcePreset = source.preset
           /\ customVoltage = source.voltage
    /\ uploads = <<>>
    /\ probe = [op |-> "config", now |-> 1]

\* a mutation: the sweep stores the voltage it used as the custom voltage
runSimulation_storesVoltage ==
    /\ simulationData' =
           Series(SweepResults(drivers, crossoverElements, earSimulator,
                               SourceVoltage(sourcePreset, customVoltage)))
    /\ customVoltage' = SourceVoltage(sourcePreset, customVoltage)
    /\ probe' = [op |-> "runSimulation", now |-> probe.now]
    /\ UNCHANGED <<drivers, crossoverElements, earSimulator, sourcePreset, uploads>>

\* runSimulation of src/unnamed/part_001
runSimulation ==
    /\ simulationData' =
           Series(SweepResults(drivers, crossoverElements, earSimulator,
                               SourceVoltage(sourcePreset, customVoltage)))
    /\ probe' = [op |-> "runSimulation", now |-> probe.now]
    /\ UNCHANGED <<drivers, crossoverElements, earSimulator, sourcePreset, customVoltage,
                   uploads>>

\* runSimulation of src/src/App.js
runSimulation_App ==
    /\ simulationData' =
           Series(SweepResults_App(drivers, crossoverElements, earSimulator,
                                   SourceVoltage(sourcePreset, customVoltage)))
    /\ probe' = [op |-> "runSimulation_App", now |-> probe.now]
    /\ UNCHANGED <<drivers, crossoverElements, earSimulator, sourcePreset, customVoltage,
                   uploads>>

NextSweep == runSimulation \/ runSimulation_App

SpecSweep == InitSweep /\ [][NextSweep]_vars

\* a sweep has run and its results are held
SweepDone == probe.op \in {"runSimulation", "runSimulation_App"}

\* the value of the field of driver idx in a result point, Undefined when
\* the point has no such field
RECURSIVE FieldOf(_, _, _)
FieldOf(entries, idx, field) ==
    IF entries = <<>> THEN Undefined
    ELSE IF Head(entries).idx = idx /\ Head(entries).field = field
         THEN Head(entries).value
         ELSE FieldOf(Tail(entries), idx, field)

\* the acoustic phase of the driver at index idx before its polarity: the
\* phase of its response series plus the electrical phase shift
PhaseBeforePolarity(idx, freq) ==
    AngleAdd(Degrees(interpolateFrequencyData(drivers[idx + 1].frd, freq, "phase")),
             complexPhase(SolveChain(freq, DriverElements(crossoverElements, idx),
                                     drivers[idx + 1].zma).H))

\* two drivers, both with a response, with identical per-driver SPL and
\* phase at the frequency of the point
TwinDrivers(point) ==
    /\ Len(drivers) = 2
    /\ drivers[1].frd # Null
    /\ drivers[2].frd # Null
    /\ FieldOf(point.entries, 0, "spl") # Undefined
    /\ FieldOf(point.entries, 0, "spl") = FieldOf(point.entries, 1, "spl")
    /\ PhaseBeforePolarity(0, point.freq) = PhaseBeforePolarity(1, point.freq)

\* C5: when two drivers have identical per-driver SPL and phase at a
\* frequency and exactly one of them has its polarity inverted, the sweep
\* reports a total SPL at or below the silence floor of -200 dB there.
C5_Cancellation ==
    SweepDone =>
        \A i \in DOMAIN simulationData.points :
            LET point == simulationData.points[i]
            IN  (TwinDrivers(point) /\ drivers[1].polarity # drivers[2].polarity)
                    => /\ point.total_spl # Undefined
                       /\ MilliDb(point.total_spl) <= -200000

\* C5 for src/src/App.js alone: the two pressures cancel exactly and the
\* total is the floor value -200
C5_Cancellation_App ==
    probe.op = "runSimulation_App" =>
        \A i \in DOMAIN simulationData.points :
            LET point == simulationData.points[i]
            IN  (TwinDrivers(point) /\ drivers[1].polarity # drivers[2].polarity)
                    => point.total_spl = DbNum(Num(-200))

\* src/unnamed/part_001: two drivers of 120 dB at 0 degrees, one inverted.
\* The inverted pressure is (M * cos(pi), M * sin(pi)) with Math.sin(Math.PI)
\* = 1.22e-16, the sum is M * 1.22e-16 = 1.22e-10 > EPSILON, and the total
\* is 20 * log10(1.22e-10) = -198.24 dB, above the floor.
C5_ResidueAboveFloor ==
    /\ probe.op = "runSimulation"
    /\ \E i \in DOMAIN simulationData.points :
           LET point == simulationData.points[i]
           IN  /\ TwinDrivers(point)
               /\ drivers[1].polarity # drivers[2].polarity
               /\ MilliDb(point.total_spl) > -200000

\* C6: when two drivers have identical per-driver SPL and phase at a
\* frequency and the same polarity, the summed pressure is exactly twice
\* one driver's pressure: the total SPL is the driver's SPL plus
\* 20 * log10(2) (src/unnamed/part_001).
C6_CoherentDoubling ==
    probe.op = "runSimulation" =>
        \A i \in DOMAIN simulationData.points :
            LET point == simulationData.points[i]
            IN  (TwinDrivers(point) /\ drivers[1].polarity = drivers[2].polarity)
                    => point.total_spl =
                           DbAdd(FieldOf(point.entries, 0, "spl"),
                                 Log20(Surd(Num(4)), FALSE))

\* two drivers of the same polarity (both inverted included) whose total is
\* 20 * log10(2) above the SPL of each
C6_TwoInPhase ==
    /\ probe.op = "runSimulation"
    /\ Len(drivers) = 2
    /\ drivers[1].polarity
    /\ \E i \in DOMAIN simulationData.points :
           LET point == simulationData.points[i]
           IN  /\ TwinDrivers(point)
               /\ drivers[1].polarity = drivers[2].polarity
               /\ point.total_spl = DbAdd(FieldOf(point.entries, 1, "spl"),
                                          Log20(Surd(Num(4)), FALSE))
               /\ MilliDb(point.total_spl) - MilliDb(FieldOf(point.entries, 1, "spl")) = 6020

\* one driver with the flat 90 dB response and the flat 8 ohm impedance, no
\* crossover elements, the ear simulator disabled and a source of 1.0 V
FlatScenario ==
    /\ Len(drivers) = 1
    /\ drivers[1].frd = FlatFrd(90)
    /\ drivers[1].zma = FlatZma
    /\ crossoverElements = <<>>
    /\ ~earSimulator.enabled
    /\ SourceVoltage(sourcePreset, customVoltage) = One

\* C7: in the flat scenario every point of the sweep has a total SPL of
\* 90 dB and a total impedance of 8 ohm, and there is a point for every
\* grid frequency.  In src/unnamed/part_001 the 90 dB carry the guards of
\* the two logarithms of 1, 20 * log10(1 + 1e-12) = 8.7e-12 dB each; in
\* src/src/App.js the total is 90 dB without them.
C7_FlatScenario ==
    (SweepDone /\ FlatScenario) =>
        /\ DOMAIN simulationData.points = DOMAIN Grid
        /\ \A i \in DOMAIN simulationData.points :
               LET point == simulationData.points[i]
               IN  /\ point.freq = Grid[i]
                   /\ point.total_spl # Undefined
                   /\ point.total_spl.num = Num(90)
                   /\ OnlyUnitGuards(point.total_spl.logs)
                   /\ (probe.op = "runSimulation_App" => point.total_spl.logs = <<>>)
                   /\ point.total_impedance = Surd(Num(64))
                   /\ point.total_phase = Degrees(Zero)

\* the flat scenario swept by src/unnamed/part_001: 90 dB and 8 ohm at the
\* last grid frequency
C7_FlatSwept ==
    /\ probe.op = "runSimulation"
    /\ FlatScenario
    /\ simulationData.points[Len(Grid)].total_spl.num = Num(90)
    /\ MilliDb(simulationData.points[Len(Grid)].total_spl) = 90000
    /\ simulationData.points[Len(Grid)].total_impedance = Surd(Num(64))


\* no driver contributed an admittance to the point: it holds no
\* per-driver impedance
NoAdmittance(point) ==
    \A i \in DOMAIN point.entries : point.entries[i].field # "impedance"

\* C13: at every grid frequency where no driver contributed any admittance,
\* the result point reports a total impedance of 1e9 ohm and leaves the
\* total phase undefined.
C13_OpenCircuit ==
    SweepDone =>
        \A i \in DOMAIN simulationData.points :
            LET point == simulationData.points[i]
            IN  NoAdmittance(point)
                    => /\ point.total_impedance = Num(1000000000)
                       /\ point.total_phase = Undefined

\* C13 for src/unnamed/part_001 and a driver list that is not empty: the
\* total impedance is 1e9 ohm
C13_OpenCircuit_part001 ==
    (probe.op = "runSimulation" /\ Len(drivers) > 0) =>
        \A i \in DOMAIN simulationData.points :
            NoAdmittance(simulationData.points[i])
                => simulationData.points[i].total_impedance = Num(1000000000)

\* src/unnamed/part_001 swept a driver that has a response series only:
\* the point reports 1e9 ohm and a total phase of 0 degrees
C13_PhaseZero ==
    /\ probe.op = "runSimulation"
    /\ Len(drivers) = 1
    /\ drivers[1].frd # Null
    /\ NoAdmittance(simulationData.points[1])
    /\ simulationData.points[1].total_impedance = Num(1000000000)
    /\ simulationData.points[1].total_phase = Degrees(Zero)

\* a number field of a result point that is NaN or infinite
NotFinite(value) ==
    CASE value = Undefined -> FALSE
      [] "sq" \in DOMAIN value -> ~IsFinite(value.sq)
      [] "deg" \in DOMAIN value -> ~IsFinite(value.deg) \/ ~IsFinite(value.tan)
      [] "num" \in DOMAIN value -> ~IsFinite(value.num)
      [] "mix" \in DOMAIN value -> FALSE
      [] OTHER -> ~IsFinite(value)

\* C14: for every crossover element the editor can store, a value of 0
\* included, and every grid frequency, the sweep divides by no zero
\* denominator outside the guarded complexDivide: no per-driver field and
\* no total field of a result point is NaN or infinite.
C14_FiniteFields ==
    probe.op = "runSimulation" =>
        \A i \in DOMAIN simulationData.points :
            LET point == simulationData.points[i]
            IN  /\ \A k \in DOMAIN point.entries : ~NotFinite(point.entries[k].value)
                /\ ~NotFinite(point.total_spl)
                /\ ~NotFinite(point.total_impedance)
                /\ ~NotFinite(point.total_phase)

\* a driver with an impedance series carries a series capacitor of 0 uF:
\* its impedance in the point is infinite and its SPL is NaN
C14_ZeroCapacitor ==
    /\ probe.op = "runSimulation"
    /\ Len(drivers) = 1
    /\ drivers[1].frd # Null
    /\ crossoverElements = <<Capacitor0(1, 0)>>
    /\ FieldOf(simulationData.points[1].entries, 0, "impedance") = Surd(Infinity)
    /\ IsNaN(FieldOf(simulationData.points[1].entries, 0, "spl").num)

\* the driver has no impedance series: none was uploaded, or the uploaded
\* file held no valid row
NoImpedanceSeries(driver) == driver.zma = Null \/ driver.zma.points = <<>>

\* the impedance of a purely resistive 8 ohm driver behind the elements
\* drawn for it: 8 ohm alone, 16 ohm behind a series resistor of 8 ohm,
\* 4 ohm beside a parallel one, infinite behind a series capacitor of 0 uF
BehindElements(driverElements) ==
    CASE driverElements = <<>> -> Surd(Num(64))
      [] driverElements # <<>> /\ driverElements[1].type = "capacitor" -> Surd(Infinity)
      [] driverElements # <<>> /\ driverElements[1].type = "resistor"
         /\ driverElements[1].series -> Surd(Num(256))
      [] driverElements # <<>> /\ driverElements[1].type = "resistor"
         /\ ~driverElements[1].series -> Surd(Num(16))

\* C15: when a driver has no impedance series, absent or empty, the solver
\* uses 8 ohm purely resistive as its electrical impedance at every
\* frequency (the impedance the point reports for the driver is that of
\* 8 ohm behind the driver's elements), and the sweep returns a result
\* point for every grid frequency.
C15_DefaultImpedance ==
    probe.op = "runSimulation" =>
        /\ Len(simulationData.points) = Len(Grid)
        /\ \A i \in DOMAIN simulationData.points :
               /\ simulationData.points[i].freq = Grid[i]
               /\ \A k \in DOMAIN drivers :
                      LET driverElements == DriverElements(crossoverElements, k - 1)
                      IN  (/\ NoImpedanceSeries(drivers[k])
                           /\ drivers[k].zma # Null \/ driverElements # <<>>)
                              => FieldOf(simulationData.points[i].entries, k - 1,
                                         "impedance") = BehindElements(driverElements)

\* a driver whose impedance file held no valid row was swept without
\* elements, and every point reports 8 ohm for it
C15_EmptySeriesSwept ==
    /\ probe.op = "runSimulation"
    /\ Len(drivers) = 1
    /\ drivers[1].zma = Series(<<>>)
    /\ crossoverElements = <<>>
    /\ Len(simulationData.points) = Len(Grid)
    /\ \A i \in DOMAIN simulationData.points :
           FieldOf(simulationData.points[i].entries, 0, "impedance") = Surd(Num(64))

\* C19: running a sweep leaves the drivers with their measurement series,
\* the crossover elements with their order keys and their stored sequence,
\* the ear-simulator configuration and the source-voltage settings
\* unchanged; the only state it writes is the result sequence.
C19_SweepWritesResultsOnly ==
    [][probe'.op \in {"runSimulation", "runSimulation_App"}
           => /\ drivers' = drivers
              /\ crossoverElements' = crossoverElements
              /\ earSimulator' = earSimulator
              /\ sourcePreset' = sourcePreset
              /\ customVoltage' = customVoltage
              /\ simulationData' # Null]_vars

\* a sweep of src/unnamed/part_001 has run over drivers with series and
\* elements, under a preset whose voltage differs from the custom voltage
C19_SweptConfiguration ==
    /\ probe.op = "runSimulation"
    /\ simulationData # Null
    /\ \E k \in DOMAIN drivers : drivers[k].frd # Null /\ drivers[k].zma # Null
    /\ crossoverElements # <<>>
    /\ SourceVoltage(sourcePreset, customVoltage) # customVoltage

\* C20: grid generation terminates; the grid starts at 20 Hz, is strictly
\* ascending and stays within 20 Hz to 20000 Hz; and the result sequence
\* holds exactly one point per grid frequency, in the same ascending order.
C20_GridAndPoints ==
    SweepDone =>
        /\ Grid # <<>>
        /\ Grid[1] = Num(20)
        /\ \A i \in DOMAIN Grid : RLe(Num(20), Grid[i]) /\ RLe(Grid[i], Num(20000))
        /\ \A i \in 1..(Len(Grid) - 1) : RLt(Grid[i], Grid[i + 1])
        /\ Len(simulationData.points) = Len(Grid)
        /\ \A i \in DOMAIN Grid : simulationData.points[i].freq = Grid[i]

\* a sweep has run and its results hold more than one point, the first at
\* 20 Hz and the last at the highest grid frequency, 10240 Hz
C20_SweptGrid ==
    /\ SweepDone
    /\ Len(simulationData.points) > 1
    /\ simulationData.points[1].freq = Num(20)
    /\ simulationData.points[Len(simulationData.points)].freq = Num(10240)

\* the SPL fields of a result point, in the order of their assignment
SplEntries(point) == SelectSeq(point.entries, LAMBDA e : e.field = "spl")

\* the pressures of the SPL fields of a point of src/unnamed/part_001, each
\* turned by 180 degrees when the driver of the field is inverted
OwnPressures(point) ==
    [k \in DOMAIN SplEntries(point) |->
        LET e == SplEntries(point)[k]
        IN  ComplexPressure(e.value,
                AngleAdd(PhaseBeforePolarity(e.idx, point.freq),
                         Degrees(IF drivers[e.idx + 1].polarity THEN Num(180) ELSE Zero)))]

\* the pressures of the SPL fields of a point of src/src/App.js, each
\* negated when the driver of the field is inverted
OwnPressures_App(point) ==
    [k \in DOMAIN SplEntries(point) |->
        LET e == SplEntries(point)[k]
        IN  [level |-> e.value,
             vec |-> Cx(IF drivers[e.idx + 1].polarity THEN Num(-1) ELSE One, Zero)]]

\* C22: in the summation stage each driver's pressure is inverted exactly
\* when that driver's own polarity flag is set, for every driver list: the
\* total SPL of every point is the level of the sum of the drivers'
\* pressures, each with the sign of its own driver.
C22_OwnPolarity ==
    SweepDone =>
        \A i \in DOMAIN simulationData.points :
            LET point == simulationData.points[i]
            IN  SplEntries(point) # <<>> =>
                    point.total_spl =
                        IF probe.op = "runSimulation"
                        THEN TotalSpl(SumPressures(OwnPressures(point), <<>>))
                        ELSE TotalSpl_App(SumPressures(OwnPressures_App(point), <<>>))

\* C22 for src/unnamed/part_001 alone, which reads driver.polarity inside
\* the loop over the drivers
C22_OwnPolarity_part001 ==
    probe.op = "runSimulation" =>
        \A i \in DOMAIN simulationData.points :
            LET point == simulationData.points[i]
            IN  SplEntries(point) # <<>> =>
                    point.total_spl = TotalSpl(SumPressures(OwnPressures(point), <<>>))

\* src/src/App.js: a driver without a response precedes two inverted
\* drivers of 120 dB.  The first SPL field, of the second driver, gets the
\* sign of the first driver and the second field the sign of the second:
\* the two pressures cancel and the total is -200 dB instead of 126.02 dB.
C22_NeighboursPolarity ==
    /\ probe.op = "runSimulation_App"
    /\ Len(drivers) = 3
    /\ drivers[1].frd = Null
    /\ drivers[2].polarity /\ drivers[3].polarity
    /\ \E i \in DOMAIN simulationData.points :
           LET point == simulationData.points[i]
           IN  /\ point.total_spl = DbNum(Num(-200))
               /\ MilliDb(TotalSpl_App(SumPressures(OwnPressures_App(point), <<>>)))
                      = 126020

\* the indexes of the drivers that have an impedance in the point
Contributing(point) ==
    {point.entries[k].idx : k \in {j \in DOMAIN point.entries :
                                       point.entries[j].field = "impedance"}}

\* the impedance reported for the driver is purely resistive and not
\* negative: a finite magnitude at a phase of 0 degrees
Resistive(point, idx) ==
    /\ IsFinite(FieldOf(point.entries, idx, "impedance").sq)
    /\ FieldOf(point.entries, idx, "phase") = Degrees(Zero)

\* C26: at any frequency where the network impedance of every contributing
\* driver is purely resistive and not negative, zero included, the total
\* impedance magnitude is no greater than the smallest per-driver impedance
\* magnitude of the point.
C26_TotalBelowSmallest ==
    SweepDone =>
        \A i \in DOMAIN simulationData.points :
            LET point == simulationData.points[i]
            IN  (\A idx \in Contributing(point) : Resistive(point, idx))
                    => \A idx \in Contributing(point) :
                           RLe(point.total_impedance.sq,
                               FieldOf(point.entries, idx, "impedance").sq)

\* C26 for impedances that are all above zero
C26_TotalBelowSmallest_positive ==
    SweepDone =>
        \A i \in DOMAIN simulationData.points :
            LET point == simulationData.points[i]
            IN  (\A idx \in Contributing(point) :
                     /\ Resistive(point, idx)
                     /\ FieldOf(point.entries, idx, "impedance").sq # Zero)
                    => \A idx \in Contributing(point) :
                           RLe(point.total_impedance.sq,
                               FieldOf(point.entries, idx, "impedance").sq)

\* src/unnamed/part_001: the first driver is shorted by a 0 ohm parallel
\* resistor and reports 0 ohm, the second reports 8 ohm, and the total is
\* 8 ohm: the admittance of the short is taken as 0
C26_ShortIgnored ==
    /\ probe.op = "runSimulation"
    /\ Len(drivers) = 2
    /\ \E i \in DOMAIN simulationData.points :
           LET point == simulationData.points[i]
           IN  /\ FieldOf(point.entries, 0, "impedance") = Surd(Zero)
               /\ FieldOf(point.entries, 0, "phase") = Degrees(Zero)
               /\ FieldOf(point.entries, 1, "impedance") = Surd(Num(64))
               /\ point.total_impedance = Surd(Num(64))

(* Two drivers swept together: SpecIsolation *)

\* the configurations of SpecSweep with exactly two drivers
InitIsolation ==
    /\ drivers \in DriverLists(2)
    /\ crossoverElements \in ElementLists(2)
    /\ simulationData = Null
    /\ earSimulator \in SweepEarSettings
    /\ \E source \in SourceSettings :
           /\ sourcePreset = source.preset
           /\ customVoltage = source.voltage
    /\ uploads = <<>>
    /\ probe = [op |-> "config", now |-> 1]

NextIsolation == runSimulation \/ runSimulation_App

SpecIsolation == InitIsolation /\ [][NextIsolation]_vars

\* the element collections another driver (at index j) may have instead
OtherElements(j) == {<<>>, <<Resistor8(9, j, FALSE)>>, <<Capacitor0(9, j)>>}

\* the configurations that differ from the current one only in the data,
\* the polarity or the elements of the drivers other than the one at
\* index idx
Alternatives(idx) ==
    {[drivers |-> [k \in DOMAIN drivers |->
                      IF k = idx + 1 THEN drivers[k]
                      ELSE [drivers[k] EXCEPT !.frd = kind.frd, !.zma = kind.zma,
                                              !.polarity = kind.polarity]],
      elements |-> DriverElements(crossoverElements, idx) \o others] :
         kind \in DriverKinds,
         others \in UNION {OtherElements(j) : j \in (0..(Len(drivers) - 1)) \ {idx}}}

\* driver${idx}_spl, driver${idx}_impedance and driver${idx}_phase of
\* every point
ReportedFor(points, idx) ==
    [k \in DOMAIN points |->
        <<FieldOf(points[k].entries, idx, "spl"),
          FieldOf(points[k].entries, idx, "impedance"),
          FieldOf(points[k].entries, idx, "phase")>>]

\* C29: the per-driver SPL, impedance magnitude and impedance phase a sweep
\* reports for a driver at every frequency are the same in every sweep
\* whose inputs differ only in another driver's data, polarity or elements
\* (same ear simulator and source voltage).
C29_OwnInputsOnly ==
    probe.op = "runSimulation"
        => \A idx \in 0..(Len(drivers) - 1) : \A other \in Alternatives(idx) :
               ReportedFor(simulationData.points, idx) =
                   ReportedFor(SweepResults(other.drivers, other.elements, earSimulator,
                                            SourceVoltage(sourcePreset, customVoltage)),
                               idx)

\* C29 for the sweep of src/src/App.js
C29_OwnInputsOnly_App ==
    probe.op = "runSimulation_App"
        => \A idx \in 0..(Len(drivers) - 1) : \A other \in Alternatives(idx) :
               ReportedFor(simulationData.points, idx) =
                   ReportedFor(SweepResults_App(other.drivers, other.elements,
                                                earSimulator,
                                                SourceVoltage(sourcePreset, customVoltage)),
                               idx)

\* a sweep reported all three values for the first driver, which has an
\* element, next to a second driver with a response, an impedance series
\* and an element of its own
C29_ObservedBesideAnother ==
    /\ probe.op = "runSimulation"
    /\ Len(drivers) = 2
    /\ \A field \in {"spl", "impedance", "phase"} :
           FieldOf(simulationData.points[1].entries, 0, field) # Undefined
    /\ drivers[2].frd # Null /\ drivers[2].zma # Null
    /\ DriverElements(crossoverElements, 0) # <<>>
    /\ DriverElements(crossoverElements, 1) # <<>>

---------------------------------------------------------------------------
---------------------------------------------------------------------------
(* parseFrequencyData called on its own: SpecParse *)

\* the longest file drawn as an input, in lines
MaxLines == 3

\* the points one line contributes in src/src/App.js: a response point
\* holds no phase, an impedance point the third field unless it is NaN
ParseLine_App(line, type) ==
    IF line.skip \/ Len(line.parts) < 2 THEN <<>>
    ELSE
    Let(line.parts[1], LAMBDA freq :
    Let(line.parts[2], LAMBDA value :
        IF IsNaN(freq) \/ IsNaN(value) THEN <<>>
        ELSE IF type = "frd" THEN <<[freq |-> freq, spl |-> value]>>
        ELSE IF type = "zma"
             THEN Let(IF Len(line.parts) >= 3 THEN line.parts[3] ELSE Zero, LAMBDA phase :
                      <<[freq |-> freq, impedance |-> value,
                         phase |-> IF IsNaN(phase) THEN Zero ELSE phase]>>)
        ELSE <<>>))

\* parseFrequencyData of src/src/App.js
RECURSIVE parseFrequencyData_App(_, _)
parseFrequencyData_App(lines, type) ==
    IF lines = <<>> THEN <<>>
    ELSE ParseLine_App(Head(lines), type) \o parseFrequencyData_App(Tail(lines), type)

\* the lines a file is made of: a blank line, a comment line ('* 20 4',
\* whose first field is not a number), a row of one field, rows whose first
\* or second field is not a number, rows of two fields (0 Hz included), a
\* row of three fields and a row whose third field is not a number
FileLineKinds ==
    {Line(TRUE, <<>>),
     Line(TRUE, <<NaN, Num(20), Num(4)>>),
     Line(FALSE, <<Num(20)>>),
     Line(FALSE, <<NaN, Num(4)>>),
     Line(FALSE, <<Num(20), NaN>>),
     Line(FALSE, <<Num(20), Num(4)>>),
     Line(FALSE, <<Zero, Num(16)>>),
     Line(FALSE, <<Num(80), Num(16), Num(180)>>),
     Line(FALSE, <<Num(320), Num(4), NaN>>)}

Files == UNION {[1..n -> FileLineKinds] : n \in 0..MaxLines}

InitParse ==
    /\ EditorInit
    /\ probe \in [op : {"args"}, lines : Files, type : {"frd", "zma"}, out : {<<>>}]

Parse ==
    /\ probe.op = "args"
    /\ probe' = [probe EXCEPT !.op = "parseFrequencyData",
                              !.out = parseFrequencyData(probe.lines, probe.type)]
    /\ UNCHANGED editor

Parse_App ==
    /\ probe.op = "args"
    /\ probe' = [probe EXCEPT !.op = "parseFrequencyData_App",
                              !.out = parseFrequencyData_App(probe.lines, probe.type)]
    /\ UNCHANGED editor

NextParse == Parse \/ Parse_App

SpecParse == InitParse /\ [][NextParse]_vars

\* a row that gives a point: at least two fields, the first two numbers,
\* on a line that is neither blank nor a comment
ValidRow(line) ==
    /\ ~line.skip
    /\ Len(line.parts) >= 2
    /\ ~IsNaN(line.parts[1])
    /\ ~IsNaN(line.parts[2])

\* the indices of the valid rows of a file, in file order
ValidRows(lines) == SelectSeq([i \in DOMAIN lines |-> i], LAMBDA i : ValidRow(lines[i]))

\* the value column of a point of the type
PointValue(point, type) == IF type = "frd" THEN point.spl ELSE point.impedance

\* the phase a row gives: its third field, 0 when there is none or it is
\* not a number
RowPhase(line) ==
    IF Len(line.parts) >= 3 /\ ~IsNaN(line.parts[3]) THEN line.parts[3] ELSE Zero

C21_OnePointPerValidRow_App ==
    probe.op = "parseFrequencyData_App" =>
        LET rows == ValidRows(probe.lines)
        IN  /\ Len(probe.out) = Len(rows)
            /\ \A k \in DOMAIN rows :
                   LET line == probe.lines[rows[k]]
                       point == probe.out[k]
                   IN  /\ point.freq = line.parts[1]
                       /\ PointValue(point, probe.type) = line.parts[2]
                       /\ IF probe.type = "frd" THEN "phase" \notin DOMAIN point
                          ELSE point.phase = RowPhase(line)

---------------------------------------------------------------------------
(* The editor: the handlers of the driver list and the element collection *)

\* the readings of Date.now() drawn for an id: two successive
\* milliseconds.  A reading is never below the one before it, and two
\* readings within one millisecond are equal.
Millis == {1, 2}

\* the largest order key an added element gets
MaxOrderKey == 2

\* the edits drawn for updateCrossoverElement(element.id, field, value): the
\* value input cleared or set to 0, which stores parseFloat('') || 0
ElementEdits == <<[field |-> "value", value |-> Zero]>>

\* the elements the editor lists, and so the ids its buttons and inputs
\* pass: those of the drivers of the list
ListedIds ==
    {crossoverElements[i].id : i \in {j \in DOMAIN crossoverElements :
                                          crossoverElements[j].driverIndex < Len(drivers)}}

\* array.filter((_, i) => i !== index), indexes from 0
WithoutIndex(array, index) ==
    [i \in 1..(Len(array) - (IF index < Len(array) THEN 1 ELSE 0)) |->
        IF i <= index THEN array[i] ELSE array[i + 1]]

\* Math.max(...orders) over a non-empty sequence of elements
MaxOrder(elements) ==
    CHOOSE m \in {elements[i].order : i \in DOMAIN elements} :
        \A i \in DOMAIN elements : elements[i].order <= m

\* array.find / array.findIndex by id: the first index, 0 when there is none
FindIndexById(array, id) ==
    IF \E i \in DOMAIN array : array[i].id = id
    THEN CHOOSE i \in DOMAIN array :
             /\ array[i].id = id
             /\ \A j \in 1..(i - 1) : array[j].id # id
    ELSE 0

Init ==
    /\ EditorInit
    /\ probe = [op |-> "init", now |-> 1]

addDriver ==
    /\ Len(drivers) < MaxDrivers
    /\ \E now \in {ms \in Millis : ms >= probe.now} :
           /\ drivers' = Append(drivers,
                  [id |-> now, name |-> Len(drivers) + 1, frd |-> Null, zma |-> Null,
                   polarity |-> FALSE, frdCompensated |-> TRUE])
           /\ probe' = [op |-> "addDriver", now |-> now]
    /\ UNCHANGED <<crossoverElements, simulationData, earSimulator, sourcePreset,
                   customVoltage, uploads>>

\* the pending reads after removeDriver(index).  The field owner of a read
\* is not program state: it follows the driver the read was started for,
\* as its index in the list, -1 once that driver is removed.
Reowned(reads, index) ==
    [k \in DOMAIN reads |->
        [reads[k] EXCEPT !.owner = IF @ = index THEN -1
                                   ELSE IF @ > index THEN @ - 1 ELSE @]]

\* a mutation: the driver goes, its elements stay
removeDriver_keepsElements(index) ==
    /\ drivers' = WithoutIndex(drivers, index)
    /\ probe' = [op |-> "removeDriver", now |-> probe.now, index |-> index,
                 attached |-> {crossoverElements[i] : i \in
                                  {j \in DOMAIN crossoverElements :
                                       crossoverElements[j].driverIndex = index}}]
    /\ uploads' = Reowned(uploads, index)
    /\ UNCHANGED <<crossoverElements, simulationData, earSimulator, sourcePreset,
                   customVoltage>>

\* attached records the elements of the driver at the time of the call
removeDriver(index) ==
    /\ drivers' = WithoutIndex(drivers, index)
    /\ crossoverElements' = SelectSeq(crossoverElements, LAMBDA el : el.driverIndex # index)
    /\ probe' = [op |-> "removeDriver", now |-> probe.now, index |-> index,
                 attached |-> {crossoverElements[i] : i \in
                                  {j \in DOMAIN crossoverElements :
                                       crossoverElements[j].driverIndex = index}}]
    /\ uploads' = Reowned(uploads, index)
    /\ UNCHANGED <<simulationData, earSimulator, sourcePreset, customVoltage>>

addCrossoverElement(driverIndex) ==
    /\ Len(crossoverElements) < MaxElements
    /\ \E now \in {ms \in Millis : ms >= probe.now} :
           LET driverElements == DriverElements(crossoverElements, driverIndex)
               maxOrder == IF Len(driverElements) > 0 THEN MaxOrder(driverElements)
                           ELSE -1
           IN  /\ maxOrder + 1 <= MaxOrderKey
               /\ crossoverElements' = Append(crossoverElements,
                      [id |-> now, driverIndex |-> driverIndex, type |-> "capacitor",
                       value |-> Num(10), series |-> TRUE, order |-> maxOrder + 1,
                       esr |-> Rat(1, 20), dcr |-> Rat(1, 10)])
               /\ probe' = [op |-> "addCrossoverElement", now |-> now]
    /\ UNCHANGED <<drivers, simulationData, earSimulator, sourcePreset, customVoltage,
                   uploads>>

updateCrossoverElement(id, field, value) ==
    /\ crossoverElements' =
           [i \in DOMAIN crossoverElements |->
               IF crossoverElements[i].id = id
               THEN [crossoverElements[i] EXCEPT ![field] = value]
               ELSE crossoverElements[i]]
    /\ probe' = [op |-> "updateCrossoverElement", now |-> probe.now]
    /\ UNCHANGED <<drivers, simulationData, earSimulator, sourcePreset, customVoltage,
                   uploads>>

removeCrossoverElement(id) ==
    /\ crossoverElements' = SelectSeq(crossoverElements, LAMBDA el : el.id # id)
    /\ probe' = [op |-> "removeCrossoverElement", now |-> probe.now]
    /\ UNCHANGED <<drivers, simulationData, earSimulator, sourcePreset, customVoltage,
                   uploads>>

\* the element collection after moveElement(id, direction)
MovedElements(id, direction) ==
    IF FindIndexById(crossoverElements, id) = 0 THEN crossoverElements
    ELSE
    LET element == crossoverElements[FindIndexById(crossoverElements, id)]
        driverElements ==
            SortAscending(DriverElements(crossoverElements, element.driverIndex))
        currentIndex == FindIndexById(driverElements, id)
        newIndex == IF direction = "up" THEN currentIndex - 1 ELSE currentIndex + 1
    IN  IF newIndex < 1 \/ newIndex > Len(driverElements) THEN crossoverElements
        ELSE LET swapElement == driverElements[newIndex]
             IN  [i \in DOMAIN crossoverElements |->
                     IF crossoverElements[i].id = id
                     THEN [crossoverElements[i] EXCEPT !.order = swapElement.order]
                     ELSE IF crossoverElements[i].id = swapElement.id
                     THEN [crossoverElements[i] EXCEPT !.order = element.order]
                     ELSE crossoverElements[i]]

moveElement(id, direction) ==
    /\ crossoverElements' = MovedElements(id, direction)
    /\ probe' = [op |-> "moveElement", now |-> probe.now, id |-> id,
                 direction |-> direction, threw |-> FALSE]
    /\ UNCHANGED <<drivers, simulationData, earSimulator, sourcePreset, customVoltage,
                   uploads>>

\* moveElement of src/src/App.js.  Its line
\*   const newIndex = direction === 'up' ? currentIndex - 1
\*                        : newIndex = direction === 'up' ? ... : currentIndex + 1
\* assigns to newIndex inside the initialiser of newIndex when the direction
\* is not 'up': for an element that exists the handler throws a
\* ReferenceError there, before setCrossoverElements is reached.
moveElement_App(id, direction) ==
    /\ crossoverElements' =
           IF FindIndexById(crossoverElements, id) # 0 /\ direction # "up"
           THEN crossoverElements
           ELSE MovedElements(id, direction)
    /\ probe' = [op |-> "moveElement_App", now |-> probe.now, id |-> id,
                 direction |-> direction,
                 threw |-> FindIndexById(crossoverElements, id) # 0 /\ direction # "up"]
    /\ UNCHANGED <<drivers, simulationData, earSimulator, sourcePreset, customVoltage,
                   uploads>>

Next ==
    \/ addDriver
    \/ \E index \in 0..(Len(drivers) - 1) : removeDriver(index)
    \/ \E driverIndex \in 0..(Len(drivers) - 1) : addCrossoverElement(driverIndex)
    \/ \E id \in ListedIds : \E k \in DOMAIN ElementEdits :
           updateCrossoverElement(id, ElementEdits[k].field, ElementEdits[k].value)
    \/ \E id \in ListedIds : removeCrossoverElement(id)
    \/ \E id \in ListedIds \cup {0} : \E direction \in {"up", "down"} :
           moveElement(id, direction)
    \/ \E id \in ListedIds \cup {0} : \E direction \in {"up", "down"} :
           moveElement_App(id, direction)

Spec == Init /\ [][Next]_vars

\* two stored elements attached to one driver of the list
SameChain(i, j) ==
    /\ i # j
    /\ crossoverElements[i].driverIndex = crossoverElements[j].driverIndex
    /\ crossoverElements[i].driverIndex < Len(drivers)

\* C16: in every state reachable by addDriver, removeDriver,
\* addCrossoverElement, updateCrossoverElement on the fields the editor
\* exposes, removeCrossoverElement and moveElement, no two crossover
\* elements attached to the same driver have the same order key.
C16_UniqueOrderKeys ==
    \A i, j \in DOMAIN crossoverElements :
        SameChain(i, j) => crossoverElements[i].order # crossoverElements[j].order

\* C16 for elements of different ids: their order keys differ
C16_UniqueOrderKeys_distinctIds ==
    \A i, j \in DOMAIN crossoverElements :
        (SameChain(i, j) /\ crossoverElements[i].id # crossoverElements[j].id)
            => crossoverElements[i].order # crossoverElements[j].order

\* two elements added to one driver within one millisecond share their id,
\* and after moveElement on that id both hold the same order key
C16_SameKeyTwice ==
    /\ probe.op = "moveElement"
    /\ \E i, j \in DOMAIN crossoverElements :
           /\ SameChain(i, j)
           /\ crossoverElements[i].id = crossoverElements[j].id
           /\ crossoverElements[i].order = crossoverElements[j].order

\* C17: after removeDriver is applied to a driver, none of the crossover
\* elements that were attached to that driver remains in the element
\* collection.
C17_ElementsRemoved ==
    probe.op = "removeDriver" =>
        \A i \in DOMAIN crossoverElements : crossoverElements[i] \notin probe.attached

\* a driver that had elements was removed while elements of another driver
\* stay in the collection
C17_RemovedWithElements ==
    /\ probe.op = "removeDriver"
    /\ probe.attached # {}
    /\ crossoverElements # <<>>

\* C18: in every reachable editor state, every crossover element's driver
\* reference names a driver that exists in the driver list (the editor
\* reports no validation error, so a dangling reference is never reported).
C18_ValidReferences ==
    \A i \in DOMAIN crossoverElements :
        crossoverElements[i].driverIndex \in 0..(Len(drivers) - 1)

\* after removeDriver an element is left whose driverIndex lies beyond the
\* end of the driver list
C18_DanglingReference ==
    /\ probe.op = "removeDriver"
    /\ \E i \in DOMAIN crossoverElements :
           crossoverElements[i].driverIndex >= Len(drivers)

\* the index of the neighbour of the element at index i in its driver's
\* chain, ordered by ascending order key: the element before it ('up') or
\* after it ('down'), 0 when there is none
Neighbour(i, direction) ==
    LET chain == {j \in DOMAIN crossoverElements :
                      /\ j # i
                      /\ crossoverElements[j].driverIndex = crossoverElements[i].driverIndex}
        side == {j \in chain :
                     IF direction = "up"
                     THEN crossoverElements[j].order < crossoverElements[i].order
                     ELSE crossoverElements[j].order > crossoverElements[i].order}
    IN  IF side = {} THEN 0
        ELSE CHOOSE j \in side :
                 \A k \in side :
                     IF direction = "up"
                     THEN crossoverElements[k].order <= crossoverElements[j].order
                     ELSE crossoverElements[k].order >= crossoverElements[j].order

\* the step exchanged the order keys of the element of the id and its
\* neighbour and changed nothing else, or changed nothing when the id is
\* unknown or the element has no neighbour on that side
KeysExchanged(id, direction) ==
    LET i == FindIndexById(crossoverElements, id)
    IN  IF i = 0 \/ Neighbour(i, direction) = 0
        THEN crossoverElements' = crossoverElements
        ELSE crossoverElements' =
                 [crossoverElements EXCEPT
                     ![i].order = crossoverElements[Neighbour(i, direction)].order,
                     ![Neighbour(i, direction)].order = crossoverElements[i].order]

\* C23: moveElement exchanges the order keys of the element and its
\* neighbour in the driver's chain and changes nothing else; at the chain's
\* boundary or for an unknown id it changes nothing; it never throws.
C23_MoveExchanges ==
    [][probe'.op \in {"moveElement", "moveElement_App"}
           => /\ ~probe'.threw
              /\ KeysExchanged(probe'.id, probe'.direction)
              /\ UNCHANGED <<drivers, simulationData, earSimulator, sourcePreset,
                             customVoltage, uploads>>]_vars

\* C23 for src/unnamed/part_001 and a collection whose ids are distinct
C23_MoveExchanges_part001 ==
    [][(/\ probe'.op = "moveElement"
        /\ \A i, j \in DOMAIN crossoverElements :
               i # j => crossoverElements[i].id # crossoverElements[j].id)
           => /\ ~probe'.threw
              /\ KeysExchanged(probe'.id, probe'.direction)
              /\ UNCHANGED <<drivers, simulationData, earSimulator, sourcePreset,
                             customVoltage, uploads>>]_vars

\* src/src/App.js: moveElement(id, 'down') on the first of two elements of
\* a chain threw, and the order keys are as they were
C23_MoveDownThrew ==
    /\ probe.op = "moveElement_App"
    /\ probe.direction = "down"
    /\ probe.threw
    /\ \E i \in DOMAIN crossoverElements :
           /\ crossoverElements[i].id = probe.id
           /\ Neighbour(i, "down") # 0
           /\ crossoverElements[i].order < crossoverElements[Neighbour(i, "down")].order

\* the index after removeDriver(index) of the driver that was at index d
IndexAfterRemoval(d, index) == IF d > index THEN d - 1 ELSE d

\* C24: after removeDriver is applied to a driver of a list of two or more
\* drivers, every crossover element that was attached to a different
\* driver is attached to that same driver: it is kept, and its driver
\* reference is the index that driver has in the list after the removal.
C24_OwnerKept ==
    [][(probe'.op = "removeDriver" /\ Len(drivers) >= 2)
           => LET kept == SelectSeq(crossoverElements,
                                    LAMBDA el : el.driverIndex # probe'.index)
              IN  crossoverElements' =
                      [k \in DOMAIN kept |->
                          [kept[k] EXCEPT
                              !.driverIndex = IndexAfterRemoval(@, probe'.index)]]]_vars

\* the first of two drivers was removed and an element of the second
\* still holds driver reference 1, beyond the driver's new index 0
C24_OwnerLost ==
    /\ probe.op = "removeDriver"
    /\ probe.index = 0
    /\ Len(drivers) >= 1
    /\ \E i \in DOMAIN crossoverElements :
           crossoverElements[i].driverIndex = 1

---------------------------------------------------------------------------
(* A session: the driver list, file uploads and the sweep (SpecSession) *)

\* the most file reads in flight at a time
MaxUploads == 1

\* the lines of the file a user uploads: a flat 90 at 0 degrees over the
\* band, read as dB (response) or as ohm (impedance)
UploadFile ==
    <<Line(FALSE, <<Num(20), Num(90), Zero>>), Line(FALSE, <<Num(20480), Num(90), Zero>>)>>

\* handleFileUpload(e, driverIndex, type) up to 'await file.text()': the
\* read of the chosen file is in flight
handleFileUpload(driverIndex, type) ==
    /\ Len(uploads) < MaxUploads
    /\ uploads' = Append(uploads, [driverIndex |-> driverIndex, type |-> type,
                                   lines |-> UploadFile, owner |-> driverIndex])
    /\ probe' = [op |-> "handleFileUpload", now |-> probe.now]
    /\ UNCHANGED <<drivers, crossoverElements, simulationData, earSimulator, sourcePreset,
                   customVoltage>>

\* the series the read stores
ReadData(read) == Series(parseFrequencyData(read.lines, read.type))

\* the rest of handleFileUpload once the read at position k of the pending
\* reads is done: the text is parsed and setDrivers(prev => ...) assigns
\* the series to updated[driverIndex], the driver at that index of the
\* list as it is now.  Without a driver at the index the assignment
\* throws a TypeError inside the updater.
fileRead(k) ==
    LET read == uploads[k]
    IN  /\ drivers' =
               IF read.driverIndex < Len(drivers)
               THEN [drivers EXCEPT ![read.driverIndex + 1] =
                        IF read.type = "frd" THEN [@ EXCEPT !.frd = ReadData(read)]
                        ELSE [@ EXCEPT !.zma = ReadData(read)]]
               ELSE drivers
        /\ uploads' = WithoutIndex(uploads, k - 1)
        /\ probe' = [op |-> "fileRead", now |-> probe.now, read |-> read,
                     threw |-> read.driverIndex >= Len(drivers)]
        /\ UNCHANGED <<crossoverElements, simulationData, earSimulator, sourcePreset,
                       customVoltage>>

NextSession ==
    \/ addDriver
    \/ \E index \in 0..(Len(drivers) - 1) : removeDriver(index)
    \/ \E driverIndex \in 0..(Len(drivers) - 1) : \E type \in {"frd", "zma"} :
           handleFileUpload(driverIndex, type)
    \/ \E k \in DOMAIN uploads : fileRead(k)
    \/ (simulationData = Null /\ runSimulation)

SpecSession == Init /\ [][NextSession]_vars

\* C28: when a file read started by handleFileUpload for the driver at
\* index i completes, the parsed series is stored on the driver that was at
\* index i when the upload started, whatever addDriver and removeDriver did
\* meanwhile; if that driver was removed, no driver's series changes; and
\* no error is raised.
C28_StoredOnOwner ==
    [][probe'.op = "fileRead"
           => /\ ~probe'.threw
              /\ drivers' =
                     IF probe'.read.owner = -1 THEN drivers
                     ELSE [drivers EXCEPT ![probe'.read.owner + 1] =
                              IF probe'.read.type = "frd"
                              THEN [@ EXCEPT !.frd = ReadData(probe'.read)]
                              ELSE [@ EXCEPT !.zma = ReadData(probe'.read)]]]_vars

\* C28 for a read during which no driver was removed
C28_StoredOnOwner_noRemoval ==
    [][(probe'.op = "fileRead" /\ probe'.read.owner = probe'.read.driverIndex)
           => /\ ~probe'.threw
              /\ drivers' =
                     [drivers EXCEPT ![probe'.read.owner + 1] =
                         IF probe'.read.type = "frd"
                         THEN [@ EXCEPT !.frd = ReadData(probe'.read)]
                         ELSE [@ EXCEPT !.zma = ReadData(probe'.read)]]]_vars

\* the driver of the read was removed while the file was read, and the
\* series went to the driver that took over its index
C28_StoredOnSuccessor ==
    /\ probe.op = "fileRead"
    /\ probe.read.owner = -1
    /\ ~probe.threw
    /\ probe.read.type = "frd"
    /\ drivers[probe.read.driverIndex + 1].frd = ReadData(probe.read)

\* the per-driver entries of the points of a result sequence
DriverEntries(points) == [k \in DOMAIN points |-> points[k].entries]

\* C30: whenever a result sequence is held, the per-driver entries of each
\* of its points are those a sweep of the current drivers with their
\* current elements gives: an addDriver, removeDriver, file upload or
\* element edit after a sweep clears or recomputes the held results.
C30_ResultsCurrent ==
    simulationData # Null
        => DriverEntries(simulationData.points) =
               DriverEntries(SweepResults(drivers, crossoverElements, earSimulator,
                                          SourceVoltage(sourcePreset, customVoltage)))

\* C30 in the state a sweep leaves
C30_ResultsCurrent_afterSweep ==
    probe.op = "runSimulation"
        => DriverEntries(simulationData.points) =
               DriverEntries(SweepResults(drivers, crossoverElements, earSimulator,
                                          SourceVoltage(sourcePreset, customVoltage)))

\* a driver with a response was swept and then removed: the results still
\* hold its driver0 entries while another driver, or none, is at index 0
C30_ResultsOfRemovedDriver ==
    /\ probe.op = "removeDriver"
    /\ simulationData # Null
    /\ \E k \in DOMAIN simulationData.points :
           FieldOf(simulationData.points[k].entries, 0, "spl") # Undefined
    /\ \A k \in DOMAIN drivers : drivers[k].frd = Null
====
